---- MODULE Spec2Model ----
(***************************************************************************)
(* letsroll: dice rolls and the actions applied to them.                   *)
(*                                                                         *)
(* A roll request (a count and a dice) is rolled once into a Rolls value;  *)
(* an action consumes a Rolls value and returns a new one, or an error.    *)
(* The model follows src/src/dice.rs (the dice and how they roll) and      *)
(* src/src/actions.rs (the actions and Apply::apply).                      *)
(***************************************************************************)
EXTENDS Integers, Sequences, FiniteSets, TLC

(***************************************************************************)
(* Integer types of the program.                                           *)
(***************************************************************************)
\* DiceNumber = u8: the number of values of DiceNumber.
DiceNumberRange == 256
\* NumericRoll = u16: the number of values of NumericRoll.
NumericRollRange == 65536

\* `x as DiceNumber`: a narrowing cast keeps the low 8 bits.
AsDiceNumber(x) == x % DiceNumberRange

\* The three fudge values, named by the draw of gen_range(1, 4) that yields
\* each of them.
Blank == 1
Plus == 2
Minus == 3
FudgeRoll == {Blank, Plus, Minus}

(***************************************************************************)
(* Bounds of the model.                                                    *)
(***************************************************************************)
\* Largest count of a request with a numbered, constant or fudge dice.
MaxCount == 2
\* Largest side number of the numbered dice of the general requests.
MaxSides == 3
\* Largest parameter of KeepBest, KeepWorst, RerollBest and RerollWorst.
MaxKeep == 6
\* Largest factor of MultiplyBy.
MaxFactor == 3
\* Largest number of values in a Reroll or Explode parameter.
MaxTrigger == 2
\* Number of explode() calls the model records in full.
MaxFrames == 5
\* Number of values drawn at random by explode() that the model records.
MaxDrawn == 4
\* Number of Rolls of the lists total() and count() are applied to.
MaxRolls == 3

(***************************************************************************)
(* Small helpers on sequences.                                             *)
(***************************************************************************)
Range(s) == {s[i] : i \in DOMAIN s}

\* Number of elements of s that are in the set t (iter().filter().count()).
CountIn(s, t) == Cardinality({i \in DOMAIN s : s[i] \in t})

\* s without its first k elements (Iterator::skip).
Skip(s, k) == SubSeq(s, k + 1, Len(s))

\* The first k elements of s (Iterator::take).
Take(s, k) == SubSeq(s, 1, k)

\* The sum of the elements of s (iter().sum()), halving s so that long
\* sequences do not nest deeply.
RECURSIVE SeqSum(_)
SeqSum(s) ==
    IF s = <<>> THEN 0
    ELSE IF Len(s) = 1 THEN s[1]
    ELSE LET half == Len(s) \div 2
         IN  SeqSum(SubSeq(s, 1, half)) + SeqSum(SubSeq(s, half + 1, Len(s)))

\* The sequences of ss one after the other (flatten()), halving ss like SeqSum.
RECURSIVE Flatten(_)
Flatten(ss) ==
    IF ss = <<>> THEN <<>>
    ELSE IF Len(ss) = 1 THEN ss[1]
    ELSE LET half == Len(ss) \div 2
         IN  Flatten(SubSeq(ss, 1, half)) \o Flatten(SubSeq(ss, half + 1, Len(ss)))

\* slice::sort on integers: the ascending arrangement of s.  Position i holds
\* the value v with fewer than i elements below it and at least i elements
\* not above it.
Sorted(s) ==
    LET below == [v \in Range(s) |-> Cardinality({j \in DOMAIN s : s[j] < v})]
        upto == [v \in Range(s) |-> Cardinality({j \in DOMAIN s : s[j] <= v})]
    IN  [i \in 1..Len(s) |->
            CHOOSE v \in Range(s) : below[v] < i /\ i <= upto[v]]

(***************************************************************************)
(* Dice.                                                                   *)
(***************************************************************************)
ConstDice(v) ==
    [kind |-> "ConstDice", value |-> v, sides |-> 0, values |-> <<>>]
NumberedDice(s) ==
    [kind |-> "NumberedDice", value |-> 0, sides |-> s, values |-> <<>>]
RepeatingDice(vs) ==
    [kind |-> "RepeatingDice", value |-> 0, sides |-> 0, values |-> vs]
FudgeDice ==
    [kind |-> "FudgeDice", value |-> 0, sides |-> 0, values |-> <<>>]
FudgeConstDice(v) ==
    [kind |-> "FudgeConstDice", value |-> v, sides |-> 0, values |-> <<>>]
FudgeRepeatingDice(vs) ==
    [kind |-> "FudgeRepeatingDice", value |-> 0, sides |-> 0, values |-> vs]

\* NumericDice, the dice of NumericRolls: the result of total() and count()
\* is a NumericRolls too, its dice NumericDice::AggregationResult.
IsNumeric(d) ==
    d.kind \in {"ConstDice", "NumberedDice", "RepeatingDice", "AggregationResult"}
IsFudge(d) == ~IsNumeric(d)
\* The dice whose roll() draws from the random number generator.
IsRandom(d) == d.kind \in {"NumberedDice", "FudgeDice"}

\* GetMaxValue::get_max_value.  iter().max() of the values, 0 when empty.
SeqMax(s) ==
    IF s = <<>> THEN 0
    ELSE CHOOSE m \in Range(s) : \A x \in Range(s) : x <= m

GetMaxValue(d) ==
    CASE d.kind = "ConstDice" -> d.value
      [] d.kind = "NumberedDice" -> d.sides
      [] d.kind = "RepeatingDice" -> SeqMax(d.values)

(***************************************************************************)
(* Rolling.  A roll either returns its values or aborts the program        *)
(* (panic); where the build decides (overflow checks on or off) both       *)
(* outcomes are possible.                                                  *)
(***************************************************************************)
Returned(vs) == [panic |-> FALSE, values |-> vs]
Panicked == [panic |-> TRUE, values |-> <<>>]

\* All sequences of n values of the set s.
Draws(n, s) == IF n = 0 THEN {<<>>} ELSE [1..n -> s]

\* ConstDice::roll: n copies of the value.
ConstRoll(n, v) == {Returned([i \in 1..n |-> v])}

\* A RepeatingDice::roll that appends the sequence n / len times to nothing:
\* one copy short, it runs out of values when n is no multiple of len.
RepeatingRollShort(n, vs) ==
    IF Len(vs) = 0 THEN {Panicked}
    ELSE LET len == Len(vs)
             copies == n \div len
             repeat_values == [i \in 1..(copies * len) |-> vs[((i - 1) % len) + 1]]
         IN  {Returned(repeat_values)}

\* RepeatingDice::roll: the sequence, appended to itself n / len more times,
\* cut to its first n values.
RepeatingRoll(n, vs) ==
    IF Len(vs) = 0 THEN {Panicked}
    ELSE LET len == Len(vs)
             copies == 1 + (n \div len)
             repeat_values == [i \in 1..(copies * len) |-> vs[((i - 1) % len) + 1]]
         IN  {Returned(SubSeq(repeat_values, 1, n))}

\* The range 1..n + 1 of NumberedDice::roll and FudgeDice::roll, n a
\* DiceNumber: n + 1 overflows for n = 255 (a panic, or 0 and an empty range).
RangeOverflows(n) == n + 1 >= DiceNumberRange

\* NumberedDice::roll: n draws of gen_range(1, sides + 1).
NumberedRoll(n, sides) ==
    IF RangeOverflows(n) THEN {Panicked, Returned(<<>>)}
    ELSE IF n = 0 THEN {Returned(<<>>)}
    ELSE IF sides = 0 \/ sides + 1 >= NumericRollRange THEN {Panicked}
    ELSE {Returned(vs) : vs \in Draws(n, 1..sides)}

\* FudgeDice::roll: n draws of gen_range(1, 4).
FudgeDiceRoll(n) ==
    IF RangeOverflows(n) THEN {Panicked, Returned(<<>>)}
    ELSE {Returned(vs) : vs \in Draws(n, FudgeRoll)}

\* Roll::roll(n, dice): the possible results of rolling dice d for n values.
Roll(n, d) ==
    CASE d.kind \in {"ConstDice", "FudgeConstDice"} -> ConstRoll(n, d.value)
      [] d.kind \in {"RepeatingDice", "FudgeRepeatingDice"} -> RepeatingRoll(n, d.values)
      [] d.kind = "NumberedDice" -> NumberedRoll(n, d.sides)
      [] d.kind = "FudgeDice" -> FudgeDiceRoll(n)

(***************************************************************************)
(* Actions (enum Action).  An action is a record: its variant, the values  *)
(* of a Reroll or Explode (Vec<T>, used for membership only) and the       *)
(* number of a MultiplyBy, KeepBest, KeepWorst, RerollBest or RerollWorst. *)
(***************************************************************************)
Act(name, values, n) == [name |-> name, values |-> values, n |-> n]
NoAction == Act("none", {}, 0)

\* What an action application yields: Ok(rolls), Err(kind) or a panic.
Ok(vs) == [status |-> "ok", rolls |-> vs]
Err(kind) == [status |-> kind, rolls |-> <<>>]
Panic == [status |-> "panic", rolls |-> <<>>]

\* Arithmetic on NumericRoll (u16): a result out of range panics in a build
\* with overflow checks and wraps in a build without them.
Wrapping(exact) ==
    IF \E i \in DOMAIN exact : exact[i] >= NumericRollRange
    THEN {Panic, Ok([i \in DOMAIN exact |-> exact[i] % NumericRollRange])}
    ELSE {Ok(exact)}

\* MultiplyBy::multiply.
Multiply(rolls, factor) == Wrapping([i \in DOMAIN rolls |-> rolls[i] * factor])

\* Sum::sum.
Sum(rolls) == Wrapping(<<SeqSum(rolls)>>)

\* get_digits_number: (log10(n) + 1) as usize.  For n >= 1 the number of
\* decimal digits of n; log10(0) is -inf and the cast saturates at 0.
RECURSIVE GetDigitsNumber(_)
GetDigitsNumber(n) ==
    IF n = 0 THEN 0
    ELSE IF n < 10 THEN 1
    ELSE 1 + GetDigitsNumber(n \div 10)

\* The decimal digits of v, most significant first (Display for u16).
RECURSIVE ToDigits(_)
ToDigits(v) == IF v < 10 THEN <<v>> ELSE Append(ToDigits(v \div 10), v % 10)

\* format!("{:0width$}", roll): left-padded with zeros to at least width.
ZeroPad(ds, width) ==
    IF Len(ds) >= width THEN ds
    ELSE [i \in 1..(width - Len(ds)) |-> 0] \o ds

\* chars().rev().
Reverse(ds) == [i \in 1..Len(ds) |-> ds[Len(ds) + 1 - i]]

\* The number a digit string denotes.
RECURSIVE DigitsValue(_)
DigitsValue(ds) ==
    IF ds = <<>> THEN 0
    ELSE DigitsValue(SubSeq(ds, 1, Len(ds) - 1)) * 10 + ds[Len(ds)]

\* The digit string FlipFlop::flip parses for one roll.
FlipDigits(roll, max_value) ==
    Reverse(ZeroPad(ToDigits(roll), GetDigitsNumber(max_value)))

\* FlipFlop::flip: parse::<NumericRoll>() fails on a number that does not fit
\* u16, and the unwrap() of that failure panics.
Flip(d, rolls) ==
    LET flipped == [i \in DOMAIN rolls |->
                       DigitsValue(FlipDigits(rolls[i], GetMaxValue(d)))]
    IN  IF \E i \in DOMAIN flipped : flipped[i] >= NumericRollRange
        THEN {Panic}
        ELSE {Ok(flipped)}

\* A reroll that pushes the kept rolls first and the new rolls after them.
RerollAppends(d, rolls, t) ==
    LET matching == {i \in DOMAIN rolls : rolls[i] \in t}
        kept == SelectSeq(rolls, LAMBDA x : x \notin t)
        faces == {r.values[1] : r \in {x \in Roll(1, d) : ~x.panic}}
    IN  {Ok(kept \o new) : new \in Draws(Cardinality(matching), faces)}

\* A reroll with the test inverted: the rolls that are not in t are replaced.
RerollOthers(d, rolls, t) ==
    LET others == {i \in DOMAIN rolls : rolls[i] \notin t}
        faces == {r.values[1] : r \in {x \in Roll(1, d) : ~x.panic}}
    IN  IF others = {} THEN {Ok(rolls)}
        ELSE {Ok([i \in DOMAIN rolls |->
                     IF i \in others THEN new[i] ELSE rolls[i]]) :
                 new \in [others -> faces]}

\* Reroll::reroll: each roll that is in t is replaced by one roll(1) of the
\* dice, the others are kept.
Reroll(d, rolls, t) ==
    LET matching == {i \in DOMAIN rolls : rolls[i] \in t}
        one == Roll(1, d)
        faces == {r.values[1] : r \in {x \in one : ~x.panic}}
    IN  IF matching = {} THEN {Ok(rolls)}
        ELSE (IF \E r \in one : r.panic THEN {Panic} ELSE {})
             \cup {Ok([i \in DOMAIN rolls |->
                          IF i \in matching THEN new[i] ELSE rolls[i]]) :
                      new \in [matching -> faces]}

\* A keep_best that takes from the wrong end of the sorted rolls.
KeepBestFirst(rolls, keep) ==
    IF keep > Len(rolls) THEN Err("BadActionParameter")
    ELSE Ok(Take(Sorted(rolls), keep))

\* A keep_best that skips one roll too many.
KeepBestOffByOne(rolls, keep) ==
    IF keep > Len(rolls) THEN Err("BadActionParameter")
    ELSE Ok(Skip(Sorted(rolls), Len(rolls) - keep + 1))

\* KeepBest::keep_best on Vec<NumericRoll>.
KeepBest(rolls, keep) ==
    IF keep > Len(rolls) THEN Err("BadActionParameter")
    ELSE Ok(Skip(Sorted(rolls), Len(rolls) - keep))

\* A keep_worst that clamps keep to the number of rolls.
KeepWorstClamped(rolls, keep) ==
    Ok(Take(Sorted(rolls), IF keep > Len(rolls) THEN Len(rolls) ELSE keep))

\* KeepWorst::keep_worst on Vec<NumericRoll>.
KeepWorst(rolls, keep) ==
    IF keep > Len(rolls) THEN Err("BadActionParameter")
    ELSE Ok(Take(Sorted(rolls), keep))

\* `self.rolls.len() as DiceNumber - reroll`: the length narrowed to u8, and
\* a subtraction that panics or wraps below zero.
KeptCount(len, reroll) ==
    LET diff == AsDiceNumber(len) - reroll
    IN  IF diff < 0 THEN {-1, diff + DiceNumberRange} ELSE {diff}

\* The kept values followed by roll(reroll) of the dice.
AppendRoll(kept, reroll, d) ==
    IF kept.status # "ok" THEN {kept}
    ELSE {IF r.panic THEN Panic ELSE Ok(kept.rolls \o r.values) :
             r \in Roll(reroll, d)}

\* RerollBest::reroll_best.
RerollBest(d, rolls, reroll) ==
    IF reroll > Len(rolls) THEN {Err("BadActionParameter")}
    ELSE UNION {IF k < 0 THEN {Panic}
                ELSE AppendRoll(KeepWorst(rolls, k), reroll, d) :
                   k \in KeptCount(Len(rolls), reroll)}

\* RerollWorst::reroll_worst.
RerollWorst(d, rolls, reroll) ==
    IF reroll > Len(rolls) THEN {Err("BadActionParameter")}
    ELSE UNION {IF k < 0 THEN {Panic}
                ELSE AppendRoll(KeepBest(rolls, k), reroll, d) :
                   k \in KeptCount(Len(rolls), reroll)}

\* Error::incompatible(action, roll type).
Incompatible == Err("IncompatibleAction")

\* Apply::apply for NumericRolls, every variant but Explode (whose recursion
\* the model takes call by call, below).
ApplyNumeric(d, rolls, a) ==
    CASE a.name = "Sum" -> Sum(rolls)
      [] a.name = "MultiplyBy" -> Multiply(rolls, a.n)
      [] a.name = "FlipFlop" -> Flip(d, rolls)
      [] a.name = "RerollNumeric" -> Reroll(d, rolls, a.values)
      [] a.name \in {"RerollFudge", "ExplodeFudge", "Total"} -> {Incompatible}
      [] a.name = "KeepBest" -> {KeepBest(rolls, a.n)}
      [] a.name = "KeepWorst" -> {KeepWorst(rolls, a.n)}
      [] a.name = "RerollBest" -> RerollBest(d, rolls, a.n)
      [] a.name = "RerollWorst" -> RerollWorst(d, rolls, a.n)

\* Fudge rolls that take a multiplication and stay as they are.
ApplyFudgeMultiplied(d, rolls, a) ==
    CASE a.name = "RerollFudge" -> Reroll(d, rolls, a.values)
      [] a.name = "MultiplyBy" -> {Ok(rolls)}
      [] a.name \in {"Sum", "Total", "FlipFlop", "RerollNumeric",
                     "KeepBest", "KeepWorst", "RerollBest", "RerollWorst",
                     "Explode"} -> {Incompatible}

\* Apply::apply for FudgeRolls, every variant but ExplodeFudge.
ApplyFudge(d, rolls, a) ==
    CASE a.name = "RerollFudge" -> Reroll(d, rolls, a.values)
      [] a.name \in {"Sum", "Total", "MultiplyBy", "FlipFlop", "RerollNumeric",
                     "KeepBest", "KeepWorst", "RerollBest", "RerollWorst",
                     "Explode"} -> {Incompatible}

\* The variant whose explode() the roll type runs.
ExplodesOn(d, a) ==
    \/ IsNumeric(d) /\ a.name = "Explode"
    \/ IsFudge(d) /\ a.name = "ExplodeFudge"

\* Apply::apply, by roll type.
Apply(d, rolls, a) ==
    IF IsNumeric(d) THEN ApplyNumeric(d, rolls, a) ELSE ApplyFudge(d, rolls, a)

(***************************************************************************)
(* The state: one roll request, rolled, and the actions applied to it.     *)
(***************************************************************************)
VARIABLES
    dice,       \* Rolls.dice: the dice of the request
    rolls,      \* Rolls.rolls: the current values
    status,     \* "ok", the kind of the error returned, or "panic"
    action,     \* the action applied last (NoAction before the first)
    before,     \* the values that action was applied to
    pc,         \* "ready": a Rolls value awaits an action; "exploding": inside
                \* explode(); "applied": the last action has returned;
                \* "beyond": explode() returned from calls the model did not record
    frames,     \* the `rolls` of each explode() call in progress, outermost first
    complete,   \* frames holds every call (FALSE once one was forgotten, and
                \* from the start where the model records no call)
    odd,        \* parity of the number of calls forgotten
    more        \* the caller applies one more action after this one

\* parse_request: the request string, and the sessions built from it.
VARIABLES
    number,         \* RollRequest.number: how many values the request asks for
    input,          \* the string handed to parse_request, a sequence of characters
    default_total,  \* the flag handed to parse_request
    stage,          \* where parse_request is (see the steps below)
    locals,         \* what the loop of parse_request read from the string
    session,        \* the local `session` being built
    res,            \* the MultiTypeSession `res`
    outcome,        \* what parse_request returned: "ok", an error kind, "panic"
    applied,        \* the steps taken on the sessions so far, in order
    report          \* the text get_results returned

rvars == <<dice, rolls, status, action, before, pc, frames, complete, odd, more>>
svars == <<input, default_total, stage, locals, session, res, outcome, applied>>
vars == <<rvars, number, svars, report>>

\* No request string is being parsed.
NoSession ==
    /\ input = <<>>
    /\ default_total = FALSE
    /\ stage = "none"
    /\ locals = <<>>
    /\ session = <<>>
    /\ res = <<>>
    /\ outcome = "none"
    /\ applied = <<>>
    /\ report = <<>>

(***************************************************************************)
(* The requests and parameters the model explores.                         *)
(***************************************************************************)
Request(n, d) == [number |-> n, dice |-> d]

\* A constant whose digits reversed (70001) do not fit NumericRoll.
FlipOverflow == 10007

\* The sequences of the repeating dice of the crate's tests and examples.
RepeatingValues ==
    { <<1, 2, 3, 2, 1>>, <<1, 5, 3, 2, 5>>, <<1, 1, 1, 15, 100>>,
      <<1, 15, 20>>, <<5, 1, 10>>, <<5, 4, 3, 2, 1>>, <<2, 1>> }

NumericRequests ==
    {Request(n, NumberedDice(s)) : n \in 0..MaxCount, s \in 1..MaxSides}
    \cup {Request(n, ConstDice(v)) : n \in 0..MaxCount, v \in (1..MaxSides) \cup {15}}
    \cup {Request(Len(vs), RepeatingDice(vs)) : vs \in RepeatingValues}
    \cup {Request(2, NumberedDice(6)), Request(1, ConstDice(FlipOverflow))}

FudgeRequests ==
    {Request(n, FudgeDice) : n \in 0..MaxCount}
    \cup {Request(n, FudgeConstDice(v)) : n \in 1..MaxCount, v \in FudgeRoll}
    \cup {Request(3, FudgeRepeatingDice(<<Blank, Plus, Minus>>))}

\* A request of 255 values, a 3, then 127 times 2, then 127 times 1: its
\* roll grows to 382 values when it explodes on 1, 380 of them 1 or 2.
WideValues ==
    [i \in 1..(DiceNumberRange - 1) |->
        IF i = 1 THEN 3 ELSE IF i <= DiceNumberRange \div 2 THEN 2 ELSE 1]
WideRequests ==
    { Request(DiceNumberRange - 1, RepeatingDice(WideValues)),
      Request(DiceNumberRange - 1, NumberedDice(1)) }

\* The parameters of Reroll and Explode (numeric values, or fudge values).
TriggerSets ==
    {t \in SUBSET (1..MaxSides) : Cardinality(t) \in 1..MaxTrigger}
FudgeTriggerSets ==
    {t \in SUBSET FudgeRoll : Cardinality(t) \in 1..MaxTrigger}

(***************************************************************************)
(* Rolls::new: the request is rolled once.                                 *)
(***************************************************************************)
Rolled(requests, chain, record) ==
    \E q \in requests : \E r \in Roll(q.number, q.dice) :
        /\ dice = q.dice
        /\ number = q.number
        /\ NoSession
        /\ rolls = r.values
        /\ status = IF r.panic THEN "panic" ELSE "ok"
        /\ action = NoAction
        /\ before = <<>>
        /\ pc = "ready"
        /\ frames = <<>>
        /\ complete = record
        /\ odd = FALSE
        /\ more = chain

Init == Rolled(NumericRequests \cup FudgeRequests, FALSE, TRUE)

(***************************************************************************)
(* Applying an action that returns at once.                                *)
(***************************************************************************)
\* The caller takes the result: the new Rolls replaces the old one.
Finish(a, o) ==
    /\ action' = a
    /\ before' = rolls
    /\ status' = o.status
    /\ rolls' = IF o.status = "ok" THEN o.rolls ELSE rolls
    /\ pc' = IF more /\ o.status = "ok" THEN "ready" ELSE "applied"
    /\ more' = FALSE
    /\ frames' = <<>>
    /\ odd' = FALSE
    /\ UNCHANGED <<dice, complete, number, svars, report>>

Step(a) ==
    /\ pc = "ready"
    /\ status = "ok"
    /\ ~ExplodesOn(dice, a)
    /\ \E o \in Apply(dice, rolls, a) : Finish(a, o)

\* Explode::explode calls explode() on the rolls.
StartExplode(a) ==
    /\ pc = "ready"
    /\ status = "ok"
    /\ ExplodesOn(dice, a)
    /\ action' = a
    /\ before' = rolls
    /\ pc' = "exploding"
    /\ frames' = <<rolls>>
    /\ odd' = FALSE
    /\ UNCHANGED <<dice, rolls, status, more, complete, number, svars, report>>

ApplySum ==
    /\ pc = "ready"
    /\ Step(Act("Sum", {}, 0))
ApplyTotal ==
    /\ pc = "ready"
    /\ Step(Act("Total", {}, 0))
ApplyFlipFlop ==
    /\ pc = "ready"
    /\ Step(Act("FlipFlop", {}, 0))
ApplyMultiplyBy ==
    /\ pc = "ready"
    /\ \E factor \in 0..MaxFactor : Step(Act("MultiplyBy", {}, factor))
ApplyRerollNumeric ==
    /\ pc = "ready"
    /\ \E t \in TriggerSets : Step(Act("RerollNumeric", t, 0))
ApplyRerollFudge ==
    /\ pc = "ready"
    /\ \E t \in FudgeTriggerSets : Step(Act("RerollFudge", t, 0))
ApplyKeepBest ==
    /\ pc = "ready"
    /\ \E keep \in 0..MaxKeep : Step(Act("KeepBest", {}, keep))
ApplyKeepWorst ==
    /\ pc = "ready"
    /\ \E keep \in 0..MaxKeep : Step(Act("KeepWorst", {}, keep))
ApplyRerollBest ==
    /\ pc = "ready"
    /\ \E reroll \in 0..MaxKeep : Step(Act("RerollBest", {}, reroll))
ApplyRerollWorst ==
    /\ pc = "ready"
    /\ \E reroll \in 0..MaxKeep : Step(Act("RerollWorst", {}, reroll))
ApplyExplode ==
    \E t \in TriggerSets :
        LET a == Act("Explode", t, 0) IN
        IF ExplodesOn(dice, a) THEN StartExplode(a) ELSE Step(a)
ApplyExplodeFudge ==
    \E t \in FudgeTriggerSets :
        LET a == Act("ExplodeFudge", t, 0) IN
        IF ExplodesOn(dice, a) THEN StartExplode(a) ELSE Step(a)

(***************************************************************************)
(* explode(), one call at a time.  The call on non-empty rolls rolls the   *)
(* dice once for each of its rolls that is an explosion value and calls    *)
(* explode() on the new rolls; the call on empty rolls returns, and every  *)
(* caller appends what its callee returned to its own rolls.               *)
(***************************************************************************)
Top == frames[Len(frames)]

\* The count of the call: filter(...).count() as DiceNumber.
ExplosionCount(top, explosion_values) ==
    AsDiceNumber(CountIn(top, explosion_values))

\* The model records the calls up to MaxFrames of them and, for a dice that
\* draws at random, up to MaxDrawn drawn values.
Recorded(new_rolls) ==
    /\ complete
    /\ Len(frames) < MaxFrames
    /\ IsRandom(dice) =>
           Len(Flatten(Tail(frames))) + Len(new_rolls) <= MaxDrawn

\* The new call's rolls go on the stack; beyond what it records the model
\* keeps the innermost call only, and the parity of the calls it forgot.
Push(new_rolls) ==
    IF Recorded(new_rolls)
    THEN /\ frames' = Append(frames, new_rolls)
         /\ UNCHANGED <<complete, odd>>
    ELSE /\ frames' = <<new_rolls>>
         /\ complete' = FALSE
         /\ odd' = ~odd

\* The new rolls explode like the rolls they come from, call after call:
\* a dice without random draw gave the same rolls again, or every side of a
\* dice that draws at random is an explosion value.  The recursion ends when
\* the stack does.
Endless(d, vs, new_rolls, t) ==
    /\ new_rolls # <<>>
    /\ IF IsRandom(d)
       THEN {r.values[1] : r \in {x \in Roll(1, d) : ~x.panic}} \subseteq t
       ELSE new_rolls = vs

\* One call with r what dice.roll returns to it: the call that follows is
\* made on r, unless the roll panicked or the calls go on until the stack
\* overflows and the program is aborted.
ExplodeCallWith(r) ==
    /\ pc = "exploding"
    /\ Top # <<>>
    /\ IF r.panic \/ Endless(dice, Top, r.values, action.values)
       THEN /\ status' = "panic"
            /\ pc' = "applied"
            /\ more' = FALSE
            /\ UNCHANGED <<frames, complete, odd>>
       ELSE /\ Push(r.values)
            /\ UNCHANGED <<status, pc, more>>
    /\ UNCHANGED <<dice, rolls, action, before, number, svars, report>>

ExplodeCall ==
    /\ pc = "exploding"
    /\ Top # <<>>
    /\ \E r \in Roll(ExplosionCount(Top, action.values), dice) : ExplodeCallWith(r)

\* The call whose new rolls hold no explosion value.
ExplodeCallLast ==
    /\ pc = "exploding"
    /\ Top # <<>>
    /\ \E r \in {x \in Roll(ExplosionCount(Top, action.values), dice) :
                    ~x.panic /\ CountIn(x.values, action.values) = 0} :
          ExplodeCallWith(r)

\* An explode() without its test of empty rolls: the call on empty rolls
\* rolls the dice and calls explode() like any other.
ExplodeOnEmpty ==
    /\ pc = "exploding"
    /\ Top = <<>>
    /\ Push(<<>>)
    /\ UNCHANGED <<dice, rolls, status, action, before, pc, more, number, svars, report>>

ExplodeReturn ==
    /\ pc = "exploding"
    /\ Top = <<>>
    /\ IF complete
       THEN /\ rolls' = Flatten(frames)
            /\ pc' = IF more THEN "ready" ELSE "applied"
       ELSE /\ pc' = "beyond"
            /\ UNCHANGED rolls
    /\ more' = FALSE
    /\ UNCHANGED <<dice, status, action, before, frames, complete, odd, number, svars, report>>

Next ==
    \/ ApplySum
    \/ ApplyTotal
    \/ ApplyFlipFlop
    \/ ApplyMultiplyBy
    \/ ApplyRerollNumeric
    \/ ApplyRerollFudge
    \/ ApplyKeepBest
    \/ ApplyKeepWorst
    \/ ApplyRerollBest
    \/ ApplyRerollWorst
    \/ ApplyExplode
    \/ ApplyExplodeFudge
    \/ ExplodeCall
    \/ ExplodeReturn

Spec == Init /\ [][Next]_vars

\* Two actions in a row on the wide requests: the second one is applied to
\* what the first one returned.
WideInit == Rolled(WideRequests, TRUE, TRUE)
WideSpec == WideInit /\ [][Next]_vars

\* FlipFlop and MultiplyBy, two in a row on every numeric request.
FlipInit == Rolled(NumericRequests, TRUE, TRUE)
FlipNext ==
    \/ ApplyFlipFlop
    \/ ApplyMultiplyBy
FlipSpec == FlipInit /\ [][FlipNext]_vars

\* Explode alone, with the calls of explode() made one after the other and
\* random draws that are fair: a draw without explosion value, possible at
\* every call, is not avoided for ever.  Only the innermost call is kept.
FairInit == Rolled(NumericRequests \cup FudgeRequests, FALSE, FALSE)
ExplodeNext ==
    \/ ApplyExplode
    \/ ApplyExplodeFudge
    \/ ExplodeCall
    \/ ExplodeReturn

FairSpec ==
    /\ FairInit
    /\ [][ExplodeNext]_vars
    /\ WF_vars(ExplodeCall)
    /\ WF_vars(ExplodeReturn)
    /\ WF_vars(ExplodeCallLast)

\* Roll::roll alone: a request of a repeating dice for every count of a
\* DiceNumber, rolled, then rolled again.
RollRequests ==
    {Request(n, RepeatingDice(vs)) :
        n \in 0..(DiceNumberRange - 1), vs \in RepeatingValues \cup {<<1, 2, 3, 4, 5>>}}

RollInit ==
    \E q \in RollRequests :
        /\ dice = q.dice
        /\ number = q.number
        /\ NoSession
        /\ rolls = <<>>
        /\ status = "ok"
        /\ action = NoAction
        /\ before = <<>>
        /\ pc = "request"
        /\ frames = <<>>
        /\ complete = TRUE
        /\ odd = FALSE
        /\ more = FALSE

\* dice.roll(number); `before` keeps what the previous call returned.
RollDice ==
    /\ pc \in {"request", "rolled"}
    /\ \E r \in Roll(number, dice) :
          /\ rolls' = r.values
          /\ status' = IF r.panic THEN "panic" ELSE "ok"
    /\ before' = rolls
    /\ pc' = IF pc = "request" THEN "rolled" ELSE "rolled again"
    /\ UNCHANGED <<dice, action, frames, complete, odd, more, number, svars, report>>

RollSpec == RollInit /\ [][RollDice]_vars

(***************************************************************************)
(* RepeatingDice::new, then rolls of the dice it returned.                 *)
(***************************************************************************)
\* No dice has been made.
NoDice == [kind |-> "none", value |-> 0, sides |-> 0, values |-> <<>>]

\* A constructor that makes a dice of whatever values it is given.
NewUnchecked(values) == [status |-> "ok", dice |-> RepeatingDice(values)]

\* RepeatingDice::new: Err(BadDice) for no values, Ok(the dice) otherwise.
NewRepeatingDice(values) ==
    IF Len(values) = 0
    THEN [status |-> "BadDice", dice |-> NoDice]
    ELSE [status |-> "ok", dice |-> RepeatingDice(values)]

\* The value sequences handed to the constructor: every sequence of up to
\* MaxCount + 1 values of 1..MaxSides, the empty one among them.
NewValues == UNION {Draws(n, 1..MaxSides) : n \in 0..(MaxCount + 1)}

\* `before` holds the values handed to the constructor.
NewInit ==
    /\ before \in NewValues
    /\ number \in 0..(2 * MaxCount + 1)
    /\ dice = NoDice
    /\ NoSession
    /\ rolls = <<>>
    /\ status = "ok"
    /\ action = NoAction
    /\ pc = "new"
    /\ frames = <<>>
    /\ complete = TRUE
    /\ odd = FALSE
    /\ more = FALSE

\* let dice = RepeatingDice::new(values): the caller has a dice to roll, or
\* the error.
NewDice ==
    /\ pc = "new"
    /\ LET made == NewRepeatingDice(before) IN
       /\ status' = made.status
       /\ dice' = made.dice
       /\ pc' = IF made.status = "ok" THEN "request" ELSE "failed"
    /\ UNCHANGED <<rolls, action, before, frames, complete, odd, more, number, svars, report>>

NewNext ==
    \/ NewDice
    \/ RollDice

NewSpec == NewInit /\ [][NewNext]_vars

(***************************************************************************)
(* The request string (grammar roll_request.pest).  A string is a sequence *)
(* of characters; its words are what whitespace separates.                 *)
(***************************************************************************)
DecimalDigits == <<"0", "1", "2", "3", "4", "5", "6", "7", "8", "9">>
UpperLetters ==
    {"A", "B", "C", "D", "E", "F", "G", "H", "I", "J", "K", "L", "M",
     "N", "O", "P", "Q", "R", "S", "T", "U", "V", "W", "X", "Y", "Z"}

IsDigit(c) == c \in Range(DecimalDigits)
DigitOf(c) == (CHOOSE i \in 1..10 : DecimalDigits[i] = c) - 1
IsNumber(w) == w # <<>> /\ \A i \in DOMAIN w : IsDigit(w[i])
\* The integer a word of digits denotes (str::parse before its range test).
Decimal(w) == DigitsValue([i \in DOMAIN w |-> DigitOf(w[i])])

\* The parts of s that sep separates, in order: the maximal runs of
\* characters other than sep.
Split(s, sep) ==
    LET starts == {i \in DOMAIN s : s[i] # sep /\ (i = 1 \/ s[i - 1] = sep)}
        Start(k) == CHOOSE i \in starts : Cardinality({j \in starts : j < i}) = k - 1
        End(i) == CHOOSE j \in i..Len(s) :
                      /\ \A k \in i..j : s[k] # sep
                      /\ j = Len(s) \/ s[j + 1] = sep
    IN  [k \in 1..Cardinality(starts) |-> SubSeq(s, Start(k), End(Start(k)))]

Words(s) == Split(s, " ")

\* The words joined by one space each.
RECURSIVE Join(_)
Join(ws) ==
    IF ws = <<>> THEN <<>>
    ELSE IF Len(ws) = 1 THEN ws[1]
    ELSE ws[1] \o <<" ">> \o Join(Tail(ws))

StartsWith(w, p) == Len(w) >= Len(p) /\ SubSeq(w, 1, Len(p)) = p
EndsWith(w, p) == Len(w) >= Len(p) /\ SubSeq(w, Len(w) - Len(p) + 1, Len(w)) = p
\* w without its first k and its last l characters.
Inner(w, k, l) == SubSeq(w, k + 1, Len(w) - l)

\* What a word fails to match.
NoMatch == [rule |-> "none", dice_number |-> <<>>, dice_sides |-> <<>>]

\* A dice token: <N>D<S> or <N>d<S>, +<N>, <N>F.  dice_number is missing
\* (empty here) when the token has no <N>.
MatchDice(w) ==
    LET marks == {i \in DOMAIN w : w[i] \in {"D", "d"}}
    IN  IF \E i \in marks :
               /\ i = 1 \/ IsNumber(SubSeq(w, 1, i - 1))
               /\ IsNumber(SubSeq(w, i + 1, Len(w)))
        THEN LET i == CHOOSE i \in marks :
                          /\ i = 1 \/ IsNumber(SubSeq(w, 1, i - 1))
                          /\ IsNumber(SubSeq(w, i + 1, Len(w)))
             IN  [rule |-> "numbered_dice",
                  dice_number |-> SubSeq(w, 1, i - 1),
                  dice_sides |-> SubSeq(w, i + 1, Len(w))]
        ELSE IF StartsWith(w, <<"+">>) /\ IsNumber(Tail(w))
        THEN [rule |-> "num_const_dice", dice_number |-> <<>>, dice_sides |-> Tail(w)]
        ELSE IF EndsWith(w, <<"F">>) /\ (Len(w) = 1 \/ IsNumber(Inner(w, 0, 1)))
        THEN [rule |-> "fudge_dice", dice_number |-> Inner(w, 0, 1), dice_sides |-> <<>>]
        ELSE NoMatch

\* The keywords of the action and aggregation tokens.
WordFlip == <<"f", "l", "i", "p">>
WordSum == <<"s", "u", "m">>
WordTotal == <<"t", "o", "t", "a", "l">>
WordCount == <<"c", "o", "u", "n", "t">>
WordConcat == <<"c", "o", "n", "c", "a", "t">>
WordKeepBest == <<"k", "e", "e", "p", "-", "b", "e", "s", "t", "(">>
WordKeepWorst == <<"k", "e", "e", "p", "-", "w", "o", "r", "s", "t", "(">>
WordRerollBest == <<"r", "e", "r", "o", "l", "l", "-", "b", "e", "s", "t", "(">>
WordRerollWorst == <<"r", "e", "r", "o", "l", "l", "-", "w", "o", "r", "s", "t", "(">>
WordReroll == <<"r", "e", "r", "o", "l", "l", "(">>
WordExplode == <<"e", "x", "p", "l", "o", "d", "e", "(">>
FudgeSymbols == {<<"+">>, <<"-">>, <<"0">>}

\* An action token as the grammar reads it: its rule, the digits of its
\* number, the values of its list and whether they are fudge values.
ActionPair(rule, param, items, fudge) ==
    [rule |-> rule, param |-> param, items |-> items, fudge |-> fudge]
NoActionPair == ActionPair("none", <<>>, <<>>, FALSE)

\* keyword(N): a keyword, a number and a closing parenthesis.
HasNumber(w, keyword) ==
    /\ StartsWith(w, keyword)
    /\ EndsWith(w, <<")">>)
    /\ IsNumber(Inner(w, Len(keyword), 1))

\* keyword(v,v,...): at least one value, all numbers or all fudge symbols.
ListOf(w, keyword) == Split(Inner(w, Len(keyword), 1), ",")
HasList(w, keyword) ==
    /\ StartsWith(w, keyword)
    /\ EndsWith(w, <<")">>)
    /\ LET inner == Inner(w, Len(keyword), 1)
           items == Split(inner, ",")
       IN  /\ items # <<>>
           /\ Len(items) = 1 + Cardinality({i \in DOMAIN inner : inner[i] = ","})
           /\ \/ \A i \in DOMAIN items : IsNumber(items[i])
              \/ \A i \in DOMAIN items : items[i] \in FudgeSymbols
IsFudgeList(items) == ~\A i \in DOMAIN items : IsNumber(items[i])

MatchAction(w) ==
    IF w = WordSum THEN ActionPair("action_sum", <<>>, <<>>, FALSE)
    ELSE IF w = WordFlip THEN ActionPair("action_flip", <<>>, <<>>, FALSE)
    ELSE IF w = WordTotal THEN ActionPair("action_total", <<>>, <<>>, FALSE)
    ELSE IF w = WordConcat THEN ActionPair("action_concat", <<>>, <<>>, FALSE)
    ELSE IF StartsWith(w, <<"x">>) /\ IsNumber(Tail(w))
    THEN ActionPair("action_mult", Tail(w), <<>>, FALSE)
    ELSE IF HasNumber(w, WordKeepBest)
    THEN ActionPair("action_keep_best", Inner(w, Len(WordKeepBest), 1), <<>>, FALSE)
    ELSE IF HasNumber(w, WordKeepWorst)
    THEN ActionPair("action_keep_worst", Inner(w, Len(WordKeepWorst), 1), <<>>, FALSE)
    ELSE IF HasNumber(w, WordRerollBest)
    THEN ActionPair("action_reroll_best", Inner(w, Len(WordRerollBest), 1), <<>>, FALSE)
    ELSE IF HasNumber(w, WordRerollWorst)
    THEN ActionPair("action_reroll_worst", Inner(w, Len(WordRerollWorst), 1), <<>>, FALSE)
    ELSE IF HasList(w, WordReroll)
    THEN ActionPair("action_reroll", <<>>, ListOf(w, WordReroll),
                    IsFudgeList(ListOf(w, WordReroll)))
    ELSE IF HasList(w, WordExplode)
    THEN ActionPair("action_explode", <<>>, ListOf(w, WordExplode),
                    IsFudgeList(ListOf(w, WordExplode)))
    ELSE NoActionPair

\* DICE_ID: an uppercase letter, then one or more uppercase letters, digits
\* or underscores.
IsDiceId(w) ==
    /\ Len(w) >= 2
    /\ w[1] \in UpperLetters
    /\ \A i \in 2..Len(w) : w[i] \in UpperLetters \/ IsDigit(w[i]) \/ w[i] = "_"

\* What the grammar hands to parse_request for one token or group.
Pair(rule, id, d, actions) ==
    [rule |-> rule, id |-> id, dice |-> d, actions |-> actions]

SyntaxError == [status |-> "Parse", pairs |-> <<>>]

\* How many more ")" than "(" a word has: a word with more closes its group.
CloseCount(w) ==
    Cardinality({i \in DOMAIN w : w[i] = ")"})
        - Cardinality({i \in DOMAIN w : w[i] = "("})
DropLast(w) == SubSeq(w, 1, Len(w) - 1)

\* roll_request: dice tokens and groups, then global actions, then the
\* aggregation; ws the words, k the next one, phase 1 while dice may come
\* and 2 once an action has.
RECURSIVE Scan(_, _, _, _)
Scan(ws, k, phase, pairs) ==
    IF k > Len(ws)
    THEN IF pairs = <<>> THEN SyntaxError ELSE [status |-> "ok", pairs |-> pairs]
    ELSE LET w == ws[k] IN
         IF phase = 1 /\ StartsWith(w, <<"(">>)
         THEN LET closes == {c \in (k + 1)..Len(ws) : CloseCount(ws[c]) > 0} IN
              IF closes = {} THEN SyntaxError
              ELSE LET c == CHOOSE c \in closes : \A x \in closes : c <= x
                       body == [i \in 1..(c - k) |->
                                   IF k + i = c THEN DropLast(ws[c]) ELSE ws[k + i]]
                       d == MatchDice(body[1])
                       actions == [i \in 1..(Len(body) - 1) |-> MatchAction(body[i + 1])]
                   IN  IF /\ IsDiceId(Tail(w))
                          /\ d # NoMatch
                          /\ \A i \in DOMAIN actions : actions[i] # NoActionPair
                       THEN Scan(ws, c + 1, 1,
                                 Append(pairs, Pair("dice_and_action", Tail(w), d, actions)))
                       ELSE SyntaxError
         ELSE IF phase = 1 /\ MatchDice(w) # NoMatch
         THEN Scan(ws, k + 1, 1, Append(pairs, Pair("dice", <<>>, MatchDice(w), <<>>)))
         ELSE IF pairs # <<>> /\ MatchAction(w) # NoActionPair
         THEN Scan(ws, k + 1, 2,
                   Append(pairs, Pair("action", <<>>, NoMatch, <<MatchAction(w)>>)))
         ELSE IF pairs # <<>> /\ w = WordCount /\ k = Len(ws)
         THEN [status |-> "ok",
               pairs |-> Append(pairs, Pair("aggregation", <<>>, NoMatch, <<>>))]
         ELSE SyntaxError

\* RequestParser::parse(Rule::roll_request, s).
Grammar(s) == Scan(Words(s), 1, 1, <<>>)

(***************************************************************************)
(* parse_request, first half: from the pairs of the grammar to the lists   *)
(* of requests, the global actions and the aggregation.                    *)
(***************************************************************************)
\* str::parse::<T>(): whether the number fits a type of `digits` decimal
\* digits at most and of range `range`.
Significant(w) ==
    LET zeros == {i \in DOMAIN w : \A j \in 1..i : w[j] = "0"}
    IN  SubSeq(w, Cardinality(zeros) + 1, Len(w))
Fits(w, digits, range) ==
    Len(Significant(w)) <= digits /\ Decimal(Significant(w)) < range

\* u32::MAX, digit by digit: a longer number does not fit, a number as long
\* fits when it is not above it.
U32Max == <<4, 2, 9, 4, 9, 6, 7, 2, 9, 5>>
FitsU32(w) ==
    LET sig == [i \in DOMAIN Significant(w) |-> DigitOf(Significant(w)[i])]
    IN  \/ Len(sig) < Len(U32Max)
        \/ /\ Len(sig) = Len(U32Max)
           /\ \/ sig = U32Max
              \/ \E i \in DOMAIN sig :
                    /\ sig[i] < U32Max[i]
                    /\ \A j \in 1..(i - 1) : sig[j] = U32Max[j]

\* RollRequest: the count, the dice, the actions of the request alone, its id.
RollRequest(n, d) == [number |-> n, dice |-> d, actions |-> <<>>, id |-> <<>>]
AddActions(q, actions) == [q EXCEPT !.actions = q.actions \o actions]
AddId(q, id) == [q EXCEPT !.id = id]

\* What parse_dice returns: (Option<NumericRollRequest>,
\* Option<FudgeRollRequest>), each a sequence of one request at most.
ParsedDice(numeric, fudge) ==
    [status |-> "ok", numeric |-> numeric, fudge |-> fudge]
ParsePanic == [status |-> "panic", numeric |-> <<>>, fudge |-> <<>>]

\* A parse_numbered_dice that takes a missing number of dice for none.
ParseNumberedDiceNoDefault(m) ==
    IF /\ m.dice_number # <<>> => Fits(m.dice_number, 3, DiceNumberRange)
       /\ Fits(m.dice_sides, 5, NumericRollRange)
    THEN ParsedDice(<<RollRequest(IF m.dice_number = <<>> THEN 0
                                  ELSE Decimal(m.dice_number),
                                  NumberedDice(Decimal(m.dice_sides)))>>, <<>>)
    ELSE ParsePanic

\* parse_numbered_dice: both numbers are parsed and unwrapped.
ParseNumberedDice(m) ==
    IF /\ m.dice_number # <<>> => Fits(m.dice_number, 3, DiceNumberRange)
       /\ Fits(m.dice_sides, 5, NumericRollRange)
    THEN ParsedDice(<<RollRequest(IF m.dice_number = <<>> THEN 1
                                  ELSE Decimal(m.dice_number),
                                  NumberedDice(Decimal(m.dice_sides)))>>, <<>>)
    ELSE ParsePanic

\* parse_const_numeric_dice: one dice of the value.
ParseConstNumericDice(m) ==
    IF Fits(m.dice_sides, 5, NumericRollRange)
    THEN ParsedDice(<<RollRequest(1, ConstDice(Decimal(m.dice_sides)))>>, <<>>)
    ELSE ParsePanic

\* parse_fudge_dice.
ParseFudgeDice(m) ==
    IF m.dice_number # <<>> => Fits(m.dice_number, 3, DiceNumberRange)
    THEN ParsedDice(<<>>, <<RollRequest(IF m.dice_number = <<>> THEN 1
                                        ELSE Decimal(m.dice_number),
                                        FudgeDice)>>)
    ELSE ParsePanic

\* parse_dice.
ParseDice(m) ==
    CASE m.rule = "fudge_dice" -> ParseFudgeDice(m)
      [] m.rule = "num_const_dice" -> ParseConstNumericDice(m)
      [] m.rule = "numbered_dice" -> ParseNumberedDice(m)

\* What parse_action pushes, or the error it returns.
ParsedAction(a) == [status |-> "ok", action |-> a]
ParseError == [status |-> "Parse", action |-> NoAction]

\* FromStr for FudgeRoll: Ok(roll) for "+", "-" and "0", the Parse error for
\* any other string.
FudgeFromStr(w) ==
    CASE w = <<"+">> -> [status |-> "ok", roll |-> Plus]
      [] w = <<"-">> -> [status |-> "ok", roll |-> Minus]
      [] w = <<"0">> -> [status |-> "ok", roll |-> Blank]
      [] OTHER -> [status |-> "Parse"]

\* parse_reroll_action and parse_explode_action: the values are parsed with
\* `?`; numeric values make the numeric variant, none the fudge variant.
ParseValuesAction(m, numeric, fudge) ==
    IF m.fudge
    THEN LET parsed == [i \in DOMAIN m.items |-> FudgeFromStr(m.items[i])] IN
         IF \E i \in DOMAIN parsed : parsed[i].status # "ok"
         THEN ParseError
         ELSE ParsedAction(Act(fudge, {parsed[i].roll : i \in DOMAIN parsed}, 0))
    ELSE IF \A i \in DOMAIN m.items : Fits(m.items[i], 5, NumericRollRange)
    THEN ParsedAction(Act(numeric, {Decimal(m.items[i]) : i \in DOMAIN m.items}, 0))
    ELSE ParseError

\* An action whose number is parse_positive_int(action)?, cast to DiceNumber
\* where the variant holds a DiceNumber.
ParseNumberAction(m, variant, narrowed) ==
    IF FitsU32(m.param)
    THEN ParsedAction(Act(variant, {},
                          IF narrowed THEN AsDiceNumber(Decimal(m.param))
                          ELSE Decimal(m.param)))
    ELSE ParseError

\* parse_action.
ParseAction(m) ==
    CASE m.rule = "action_sum" -> ParsedAction(Act("Total", {}, 0))
      [] m.rule = "action_flip" -> ParsedAction(Act("FlipFlop", {}, 0))
      [] m.rule = "action_total" -> ParsedAction(Act("Total", {}, 0))
      [] m.rule = "action_concat" -> ParsedAction(Act("Concat", {}, 0))
      [] m.rule = "action_mult" -> ParseNumberAction(m, "MultiplyBy", FALSE)
      [] m.rule = "action_reroll" -> ParseValuesAction(m, "RerollNumeric", "RerollFudge")
      [] m.rule = "action_explode" -> ParseValuesAction(m, "Explode", "ExplodeFudge")
      [] m.rule = "action_keep_best" -> ParseNumberAction(m, "KeepBest", TRUE)
      [] m.rule = "action_keep_worst" -> ParseNumberAction(m, "KeepWorst", TRUE)
      [] m.rule = "action_reroll_best" -> ParseNumberAction(m, "RerollBest", TRUE)
      [] m.rule = "action_reroll_worst" -> ParseNumberAction(m, "RerollWorst", TRUE)

\* The locals of parse_request: the two lists of requests, the global
\* actions and the aggregation, with "ok" or how the loop ended.
Locals(how, numeric, fudge, actions, aggregation) ==
    [status |-> how, num_request_dice |-> numeric,
     fudge_request_dice |-> fudge, actions |-> actions,
     aggregation |-> aggregation]
NoLocals == Locals("none", <<>>, <<>>, <<>>, "None")
Failed(how) == Locals(how, <<>>, <<>>, <<>>, "None")

\* parse_action on each action of a list in turn, up to the first error.
RECURSIVE ReadActions(_)
ReadActions(ms) ==
    IF ms = <<>> THEN [status |-> "ok", actions |-> <<>>]
    ELSE LET first == ParseAction(ms[1]) IN
         IF first.status # "ok" THEN [status |-> first.status, actions |-> <<>>]
         ELSE LET rest == ReadActions(Tail(ms)) IN
              IF rest.status # "ok" THEN rest
              ELSE [status |-> "ok", actions |-> <<first.action>> \o rest.actions]

\* The loop of parse_request over the pairs.
RECURSIVE ReadPairs(_, _)
ReadPairs(pairs, acc) ==
    IF pairs = <<>> THEN acc
    ELSE LET pair == pairs[1] IN
         CASE pair.rule = "dice" ->
                  LET d == ParseDice(pair.dice) IN
                  IF d.status # "ok" THEN Failed(d.status)
                  ELSE ReadPairs(Tail(pairs),
                           [acc EXCEPT !.num_request_dice = @ \o d.numeric,
                                       !.fudge_request_dice = @ \o d.fudge])
           [] pair.rule = "dice_and_action" ->
                  LET d == ParseDice(pair.dice)
                      dice_actions == ReadActions(pair.actions)
                      Tagged(qs) == [i \in DOMAIN qs |->
                                        AddId(AddActions(qs[i], dice_actions.actions),
                                              pair.id)]
                  IN  IF d.status # "ok" THEN Failed(d.status)
                      ELSE IF dice_actions.status # "ok" THEN Failed(dice_actions.status)
                      ELSE ReadPairs(Tail(pairs),
                               [acc EXCEPT !.num_request_dice = @ \o Tagged(d.numeric),
                                           !.fudge_request_dice = @ \o Tagged(d.fudge)])
           [] pair.rule = "action" ->
                  LET read == ReadActions(pair.actions) IN
                  IF read.status # "ok" THEN Failed(read.status)
                  ELSE ReadPairs(Tail(pairs),
                           [acc EXCEPT !.actions = @ \o read.actions])
           [] pair.rule = "aggregation" ->
                  ReadPairs(Tail(pairs), [acc EXCEPT !.aggregation = "CountValues"])

\* A parse_request that takes a string the grammar refuses for an empty
\* request.
ReadRequestLenient(s) ==
    LET parsed_roll_request == Grammar(s) IN
    IF parsed_roll_request.status # "ok" THEN Locals("ok", <<>>, <<>>, <<>>, "None")
    ELSE ReadPairs(parsed_roll_request.pairs, Locals("ok", <<>>, <<>>, <<>>, "None"))

\* parse_request up to the end of its loop.
ReadRequest(s) ==
    LET parsed_roll_request == Grammar(s) IN
    IF parsed_roll_request.status # "ok" THEN Failed(parsed_roll_request.status)
    ELSE ReadPairs(parsed_roll_request.pairs, Locals("ok", <<>>, <<>>, <<>>, "None"))

(***************************************************************************)
(* Sessions: the Rolls of every request of one type, and what is applied   *)
(* to all of them.                                                         *)
(***************************************************************************)
\* NumericDice::AggregationResult: the dice of a result that no dice rolled.
AggregationResult ==
    [kind |-> "AggregationResult", value |-> 0, sides |-> 0, values |-> <<>>]

\* Rolls.description, as far as the results tell: what the values are (the
\* rolls of a request, a total, the count of a value) and of which value.
Description(tag, of) == [tag |-> tag, of |-> of]

\* struct Rolls.
Rolls(d, vs, description) == [dice |-> d, rolls |-> vs, description |-> description]

\* Every value of every Rolls of rs, in order (map(...).flatten()).
AllRolls(rs) == Flatten([i \in DOMAIN rs |-> rs[i].rolls])

\* What a step on a whole session yields: the new list of Rolls, the kind
\* of the error, or a panic.
Done(rs) == [status |-> "ok", rolls |-> rs]

\* TotalSum::total: one Rolls whose single value is the sum of every value,
\* 0 for no Rolls at all.  The sum is a NumericRoll: out of range it panics
\* or wraps (Wrapping).
TotalSum(rs) ==
    LET sum == IF Len(rs) = 0 THEN 0 ELSE SeqSum(AllRolls(rs))
    IN  {IF o.status = "ok"
         THEN Done(<<Rolls(AggregationResult, o.rolls, Description("TOTAL SUM", 0))>>)
         ELSE o : o \in Wrapping(<<sum>>)}

\* The arrangements of the elements of a set in a sequence.
Orders(S) ==
    {p \in [1..Cardinality(S) -> S] : \A i, j \in DOMAIN p : p[i] = p[j] => i = j}

\* CountValues::count: a HashMap from each value present to the number of
\* its occurrences (a NumericRoll, incremented: out of range it panics or
\* wraps), then one Rolls for each entry, in the order the map iterates.
CountValues(rs) ==
    LET all_rolls == AllRolls(rs)
        keys == Range(all_rolls)
        occurrences == [v \in keys |-> Cardinality({i \in DOMAIN all_rolls : all_rolls[i] = v})]
        CountResults(p) == Done([i \in DOMAIN p |->
                                Rolls(AggregationResult,
                                      <<occurrences[p[i]] % NumericRollRange>>,
                                      Description("COUNT", p[i]))])
    IN  {CountResults(p) : p \in Orders(keys)}
        \cup IF \E v \in keys : occurrences[v] >= NumericRollRange
             THEN {Panic} ELSE {}

\* explode() returned from more calls than the model follows.
Beyond == [status |-> "beyond", rolls |-> <<>>]

\* explode() to its end: the rolls, then what explode() returns for the new
\* rolls.  The calls on random draws are followed `depth` calls deep; those
\* of a constant or repeating dice, whose rolls get shorter at every call or
\* stay the same for ever, to the last.
RECURSIVE Exploded(_, _, _, _)
Exploded(d, vs, t, depth) ==
    IF vs = <<>> THEN {Ok(<<>>)}
    ELSE IF depth = 0 THEN {Beyond}
    ELSE UNION {IF r.panic \/ Endless(d, vs, r.values, t) THEN {Panic}
                ELSE {IF o.status = "ok" THEN Ok(vs \o o.rolls) ELSE o :
                         o \in Exploded(d, r.values, t,
                                        IF IsRandom(d) THEN depth - 1 ELSE depth)} :
                   r \in Roll(ExplosionCount(vs, t), d)}

\* Apply::apply on one Rolls of a session of the type: the new Rolls.
ApplyRolls(type, r, a) ==
    LET outcomes ==
            IF type = "numeric"
            THEN IF a.name = "Explode"
                 THEN Exploded(r.dice, r.rolls, a.values, MaxFrames)
                 ELSE ApplyNumeric(r.dice, r.rolls, a)
            ELSE IF a.name = "ExplodeFudge"
                 THEN Exploded(r.dice, r.rolls, a.values, MaxFrames)
                 ELSE ApplyFudge(r.dice, r.rolls, a)
    IN  {IF o.status = "ok" THEN Done(<<Rolls(r.dice, o.rolls, r.description)>>) ELSE o :
            o \in outcomes}

\* The action applied to each Rolls in turn, up to the first failure.
RECURSIVE ApplyToAll(_, _, _)
ApplyToAll(type, rs, a) ==
    IF rs = <<>> THEN {Done(<<>>)}
    ELSE UNION {IF o.status # "ok" THEN {o}
                ELSE {IF rest.status = "ok" THEN Done(o.rolls \o rest.rolls) ELSE rest :
                         rest \in ApplyToAll(type, Tail(rs), a)} :
                   o \in ApplyRolls(type, rs[1], a)}

\* TypedRollSession, and how far its building has come: the requests, their
\* Rolls, whether the Rolls are an aggregation, and how many of the
\* requests' own actions and of the global actions have been applied.
NewSession(type, requests) ==
    [type |-> type, requests |-> requests, rolls |-> <<>>, aggregated |-> FALSE,
     private_done |-> 0, global_done |-> 0]

\* An add_transformation that applies an action to an aggregated session
\* like to any other.
AddTransformationAnyway(sess, a) ==
    IF a.name = "Total"
    THEN IF sess.type = "numeric" THEN TotalSum(sess.rolls) ELSE {Incompatible}
    ELSE ApplyToAll(sess.type, sess.rolls, a)

\* add_transformation: Total replaces the Rolls of a numeric session by
\* their total; any other action is applied to every Rolls; nothing is
\* applied to a session that is an aggregation already.
AddTransformation(sess, a) ==
    IF sess.aggregated THEN {Incompatible}
    ELSE IF a.name = "Total"
    THEN IF sess.type = "numeric" THEN TotalSum(sess.rolls) ELSE {Incompatible}
    ELSE ApplyToAll(sess.type, sess.rolls, a)

\* aggregate(&Aggregation::CountValues): the session count() returns.
Aggregated(counts) ==
    [type |-> "numeric", requests |-> <<>>, rolls |-> counts, aggregated |-> TRUE,
     private_done |-> 0, global_done |-> 0]

\* The requests' own actions in the order they are applied: <<i, j>> is the
\* j-th action of the i-th request.
PrivateSteps(requests) ==
    Flatten([i \in DOMAIN requests |->
                [j \in DOMAIN requests[i].actions |-> <<i, j>>]])

(***************************************************************************)
(* parse_request, step by step: the string is read, the numeric session is *)
(* built (its requests rolled, their own actions applied), the global      *)
(* actions are applied to it, it is aggregated or totalled, and the same   *)
(* for the fudge session.                                                  *)
(***************************************************************************)
\* MultiTypeSession: each sub-session an Option, a sequence of one at most.
NoRes == [numeric_session |-> <<>>, fudge_session |-> <<>>]

\* One step taken on a session, for the record.
Event(op, type, request, a) ==
    [op |-> op, type |-> type, request |-> request, action |-> a]

\* return Ok(res).
Return(r) ==
    /\ stage' = "returned"
    /\ outcome' = "ok"
    /\ res' = r

\* A failure that returns the error next to what res holds already.
AbortKeepingRes(kind) ==
    /\ stage' = "returned"
    /\ outcome' = kind
    /\ UNCHANGED res

\* A `?` that returns the error (or a panic): res is dropped.
Abort(kind) ==
    /\ stage' = "returned"
    /\ outcome' = kind
    /\ res' = NoRes

\* What parse_request does next with res = r: it builds the session of the
\* type if there are requests for it, the fudge session after the numeric
\* one, and returns after the fudge one.
Begin(l, type, r) ==
    IF type = "numeric" /\ l.num_request_dice # <<>>
    THEN /\ session' = NewSession("numeric", l.num_request_dice)
         /\ stage' = "build"
         /\ res' = r
         /\ UNCHANGED outcome
    ELSE IF l.fudge_request_dice # <<>>
    THEN /\ session' = NewSession("fudge", l.fudge_request_dice)
         /\ stage' = "build"
         /\ res' = r
         /\ UNCHANGED outcome
    ELSE /\ Return(r)
         /\ UNCHANGED session

\* RequestParser::parse and the loop over what it read.
ReadInput ==
    /\ stage = "called"
    /\ LET l == ReadRequest(input) IN
       /\ locals' = l
       /\ IF l.status # "ok"
          THEN Abort(l.status) /\ UNCHANGED session
          ELSE Begin(l, "numeric", NoRes)
    /\ UNCHANGED <<rvars, number, input, default_total, applied, report>>

\* build_with_actions: the next request is rolled.
RollNext ==
    /\ stage = "build"
    /\ LET i == Len(session.rolls) + 1
           q == session.requests[i]
       IN  \E r \in Roll(q.number, q.dice) :
              IF r.panic
              THEN Abort("panic") /\ UNCHANGED <<session, applied>>
              ELSE /\ session' = [session EXCEPT !.rolls =
                                     Append(@, Rolls(q.dice, r.values, Description("ROLLS", 0)))]
                   /\ stage' = IF i = Len(session.requests) THEN "apply" ELSE "build"
                   /\ applied' = Append(applied, Event("roll", session.type, i, NoAction))
                   /\ UNCHANGED <<res, outcome>>
    /\ UNCHANGED <<rvars, number, input, default_total, locals, report>>

\* build_with_actions: the next action of a request is applied to the Rolls
\* of that request.
ApplyPrivate ==
    /\ stage = "apply"
    /\ session.private_done < Len(PrivateSteps(session.requests))
    /\ LET step == PrivateSteps(session.requests)[session.private_done + 1]
           i == step[1]
           a == session.requests[i].actions[step[2]]
       IN  \E o \in ApplyRolls(session.type, session.rolls[i], a) :
              IF o.status # "ok"
              THEN Abort(o.status) /\ UNCHANGED <<session, applied>>
              ELSE /\ session' = [session EXCEPT !.rolls[i] = o.rolls[1],
                                                 !.private_done = @ + 1]
                   /\ applied' = Append(applied, Event("private", session.type, i, a))
                   /\ UNCHANGED <<stage, res, outcome>>
    /\ UNCHANGED <<rvars, number, input, default_total, locals, report>>

\* add_actions: the next global action is applied to the session.
ApplyGlobal ==
    /\ stage = "apply"
    /\ session.private_done = Len(PrivateSteps(session.requests))
    /\ session.global_done < Len(locals.actions)
    /\ LET a == locals.actions[session.global_done + 1] IN
       \E o \in AddTransformation(session, a) :
          IF o.status # "ok"
          THEN Abort(o.status) /\ UNCHANGED <<session, applied>>
          ELSE /\ session' = [session EXCEPT !.rolls = o.rolls,
                                             !.aggregated = @ \/ a.name = "Total",
                                             !.global_done = @ + 1]
               /\ applied' = Append(applied, Event("global", session.type, 0, a))
               /\ UNCHANGED <<stage, res, outcome>>
    /\ UNCHANGED <<rvars, number, input, default_total, locals, report>>

\* A session that is aggregated or kept once the own actions of its requests
\* have been applied, whatever is left of the global actions.
AllAppliedEarly ==
    /\ stage = "apply"
    /\ session.private_done = Len(PrivateSteps(session.requests))

\* Every action of the requests and every global action has been applied.
AllApplied ==
    /\ stage = "apply"
    /\ session.private_done = Len(PrivateSteps(session.requests))
    /\ session.global_done = Len(locals.actions)

\* An aggregation whose fudge counts take the place of the numeric session.
AggregateFudgeReplaces ==
    /\ AllApplied
    /\ locals.aggregation = "CountValues"
    /\ \E o \in CountValues(session.rolls) :
          IF o.status # "ok"
          THEN Abort(o.status) /\ UNCHANGED <<session, applied>>
          ELSE /\ applied' = Append(applied, Event("count", session.type, 0, NoAction))
               /\ IF session.type = "numeric"
                  THEN Begin(locals, "fudge",
                             [res EXCEPT !.numeric_session = <<Aggregated(o.rolls)>>])
                  ELSE /\ Return([res EXCEPT !.numeric_session = <<Aggregated(o.rolls)>>])
                       /\ UNCHANGED session
    /\ UNCHANGED <<rvars, number, input, default_total, locals, report>>

\* session.aggregate(...): the numeric session becomes its counts; the
\* counts of the fudge session go after the Rolls of res.numeric_session,
\* or make it when there is none, and res.fudge_session stays None.
Aggregate ==
    /\ AllApplied
    /\ locals.aggregation = "CountValues"
    /\ \E o \in CountValues(session.rolls) :
          IF o.status # "ok"
          THEN Abort(o.status) /\ UNCHANGED <<session, applied>>
          ELSE /\ applied' = Append(applied, Event("count", session.type, 0, NoAction))
               /\ IF session.type = "numeric"
                  THEN Begin(locals, "fudge",
                             [res EXCEPT !.numeric_session = <<Aggregated(o.rolls)>>])
                  ELSE /\ Return(IF res.numeric_session # <<>>
                                 THEN [res EXCEPT !.numeric_session[1].rolls = @ \o o.rolls]
                                 ELSE [res EXCEPT !.numeric_session = <<Aggregated(o.rolls)>>])
                       /\ UNCHANGED session
    /\ UNCHANGED <<rvars, number, input, default_total, locals, report>>

\* A default total that does not look at the global actions of the string.
TotalWhateverActions ==
    /\ default_total
    /\ locals.aggregation = "None"

\* The numeric session gets the Total action when the caller asked for it
\* and the string has neither aggregation nor global action.
TotalByDefault ==
    /\ default_total
    /\ locals.aggregation = "None"
    /\ locals.actions = <<>>

DefaultTotal ==
    /\ AllApplied
    /\ session.type = "numeric"
    /\ TotalByDefault
    /\ \E o \in AddTransformation(session, Act("Total", {}, 0)) :
          IF o.status # "ok"
          THEN Abort(o.status) /\ UNCHANGED <<session, applied>>
          ELSE /\ applied' = Append(applied,
                                    Event("global", session.type, 0, Act("Total", {}, 0)))
               /\ Begin(locals, "fudge",
                        [res EXCEPT !.numeric_session =
                            <<[session EXCEPT !.rolls = o.rolls, !.aggregated = TRUE]>>])
    /\ UNCHANGED <<rvars, number, input, default_total, locals, report>>

\* Neither aggregation nor default total: the session goes into res as it is.
KeepSession ==
    /\ AllApplied
    /\ locals.aggregation = "None"
    /\ ~(session.type = "numeric" /\ TotalByDefault)
    /\ IF session.type = "numeric"
       THEN Begin(locals, "fudge", [res EXCEPT !.numeric_session = <<session>>])
       ELSE Return([res EXCEPT !.fudge_session = <<session>>]) /\ UNCHANGED session
    /\ UNCHANGED <<rvars, number, input, default_total, locals, applied, report>>

\* The request strings the model explores: dice tokens and groups, then
\* global actions, then the aggregation or none; and strings that are no
\* request (those of tests::read_ko and tests::read_request_with_id).
DiceParts ==
    { << <<"2", "D", "2">> >>,
      << <<"d", "2">> >>,
      << <<"+", "5">> >>,
      << <<"F">> >>,
      << <<"2", "F">> >>,
      << <<"2", "D", "2">>, <<"+", "3">> >>,
      << <<"+", "3">>, <<"F">>, <<"+", "5">> >>,
      << <<"F">>, <<"+", "5">>, <<"2", "F">> >>,
      << <<"+", "4", "0", "0", "0", "0">>, <<"+", "4", "0", "0", "0", "0">> >>,
      << <<"+", "4", "0", "0", "0", "0">>, <<"F">> >>,
      << <<"+", "1", "0", "0", "0", "7">>, <<"F">> >>,
      << <<"d", "2">>, <<"F">> >>,
      << <<"+", "3">>, <<"2", "5", "5", "F">> >>,
      << <<"+", "4", "0", "0", "0", "0">>, <<"+", "4", "0", "0", "0", "0">>, <<"F">> >>,
      << <<"2", "D", "2">>, <<"F">> >>,
      << <<"(", "F", "I", "R", "E">>, <<"+", "5", ")">> >>,
      << <<"(", "A", "B">>, <<"2", "D", "2">>, <<"x", "2">>, <<"x", "3", ")">> >>,
      << <<"(", "A", "B">>, <<"+", "1", "5">>, <<"f", "l", "i", "p">>, <<"x", "2", ")">>,
         <<"+", "1", "5">> >>,
      << <<"(", "A", "B">>, <<"2", "D", "2">>, WordKeepBest \o <<"1", ")", ")">>,
         <<"(", "C", "_", "2">>, <<"2", "D", "2">>, WordKeepWorst \o <<"1", ")", ")">> >>,
      << <<"+", "3">>, <<"(", "A", "B">>, <<"+", "5">>, <<"s", "u", "m", ")">> >>,
      << <<"(", "A", "B">>, <<"+", "5">>, <<"t", "o", "t", "a", "l">>, <<"x", "2", ")">> >>,
      << <<"(", "A", "B">>, <<"2", "F">>, WordReroll \o <<"+", ",", "-", ")", ")">>,
         <<"+", "3">> >>,
      << <<"+", "3">>, <<"(", "A", "B">>, <<"F">>, <<"x", "2", ")">> >> }

ActionParts ==
    { <<>>,
      <<WordSum>>,
      <<WordTotal>>,
      <<WordFlip>>,
      << <<"x", "2">> >>,
      << <<"x", "2">>, WordKeepBest \o <<"1", ")">> >>,
      <<WordKeepWorst \o <<"2", ")">>>>,
      <<WordRerollBest \o <<"1", ")">>>>,
      <<WordRerollWorst \o <<"1", ")">>>>,
      <<WordReroll \o <<"1", ")">>>>,
      <<WordReroll \o <<"+", ")">>>>,
      <<WordExplode \o <<"3", ",", "4", ")">>>>,
      <<WordExplode \o <<"1", ",", "2", ")">>>>,
      <<WordKeepBest \o <<"1", ")">>, WordKeepBest \o <<"2", ")">>>>,
      <<WordTotal, <<"x", "2">>>>,
      <<WordSum, <<"x", "3">>>>,
      << <<"x", "2">>, WordTotal>> }

AggregationParts == {<<>>, <<WordCount>>}

Malformed ==
    { <<"5">>, <<"D", "a">>, <<"5", "D", " ", "2", "0">>, <<"D", "8", "D">>,
      <<"F", "8">>, <<"+">>, <<"8", "+">>, <<"+", "8", "+">>, <<"2", "+", "8">>,
      <<"F", "I", "R", "E", " ", "+", "5">>, <<"F", "I", " ", "+", "5">>,
      <<"4", "2", "A", " ", "+", "5">>, <<"A", "2", "A", " ", "+", "5">>,
      <<"_", "A", "B", "C", " ", "+", "5">>,
      <<"c", "o", "u", "n", "t">>, <<"x", "2", " ", "+", "5">>,
      <<"+", "5", " ", "c", "o", "u", "n", "t", " ", "x", "2">>,
      <<"(", "A", "B", " ", "+", "5">>, <<"(", "a", "b", " ", "+", "5", ")">>,
      <<"+", "5", " ", "j", "u", "m", "p">> }

SessionInputs ==
    {Join(d \o a \o g) : d \in DiceParts, a \in ActionParts, g \in AggregationParts}
    \cup Malformed

SessionInit ==
    /\ input \in SessionInputs
    /\ default_total \in BOOLEAN
    /\ stage = "called"
    /\ locals = NoLocals
    /\ session = <<>>
    /\ res = NoRes
    /\ outcome = "none"
    /\ applied = <<>>
    /\ report = <<>>
    /\ dice = AggregationResult
    /\ number = 0
    /\ rolls = <<>>
    /\ status = "ok"
    /\ action = NoAction
    /\ before = <<>>
    /\ pc = "session"
    /\ frames = <<>>
    /\ complete = TRUE
    /\ odd = FALSE
    /\ more = FALSE

SessionNext ==
    \/ ReadInput
    \/ RollNext
    \/ ApplyPrivate
    \/ ApplyGlobal
    \/ Aggregate
    \/ DefaultTotal
    \/ KeepSession

SessionSpec == SessionInit /\ [][SessionNext]_vars

(***************************************************************************)
(* parse_request on strings whose numbers do not fit the type they are     *)
(* read into: counts and sides of dice tokens, counts of keep and          *)
(* reroll-best/worst actions.                                              *)
(***************************************************************************)
RangeDiceParts ==
    { << <<"2", "D", "2">> >>,
      << <<"+", "5">> >>,
      << <<"F">> >>,
      << <<"(", "A", "B">>, <<"2", "D", "2">>, WordKeepBest \o <<"2", "5", "7", ")", ")">> >>,
      << <<"3", "0", "0", "D", "6">> >>,
      << <<"3", "0", "0", "F">> >>,
      << <<"D", "7", "0", "0", "0", "0">> >>,
      << <<"+", "7", "0", "0", "0", "0">> >>,
      << <<"2", "D", "2">>, <<"2", "5", "6", "F">> >> }

RangeActionParts ==
    { <<>>,
      <<WordKeepBest \o <<"2", ")">>>>,
      <<WordKeepBest \o <<"2", "5", "7", ")">>>>,
      <<WordKeepWorst \o <<"2", "5", "6", ")">>>>,
      <<WordRerollBest \o <<"2", "5", "8", ")">>>>,
      <<WordRerollWorst \o <<"2", "5", "7", ")">>>> }

RangeInputs ==
    {Join(d \o a \o g) :
        d \in RangeDiceParts, a \in RangeActionParts, g \in AggregationParts}

RangeInit ==
    /\ input \in RangeInputs
    /\ default_total \in BOOLEAN
    /\ stage = "called"
    /\ locals = NoLocals
    /\ session = <<>>
    /\ res = NoRes
    /\ outcome = "none"
    /\ applied = <<>>
    /\ report = <<>>
    /\ dice = AggregationResult
    /\ number = 0
    /\ rolls = <<>>
    /\ status = "ok"
    /\ action = NoAction
    /\ before = <<>>
    /\ pc = "session"
    /\ frames = <<>>
    /\ complete = TRUE
    /\ odd = FALSE
    /\ more = FALSE

RangeSpec == RangeInit /\ [][SessionNext]_vars

(***************************************************************************)
(* total() and count() alone, on lists of Rolls of every length up to      *)
(* MaxRolls, the empty list included.                                      *)
(***************************************************************************)
\* A constant such that two of it do not fit NumericRoll.
TotalOverflow == 40000

\* As many dice of one side as a request can roll, and as many such
\* requests as make more values than a NumericRoll can count.
WideCount == DiceNumberRange - 2
WideRolls == (NumericRollRange \div WideCount) + 1

\* The Rolls of a request of a dice that rolls one way only.
RolledOnce(q) ==
    Rolls(q.dice, (CHOOSE r \in Roll(q.number, q.dice) : TRUE).values,
          Description("ROLLS", 0))

NumericRolls ==
    {RolledOnce(Request(n, ConstDice(v))) : n \in 0..MaxCount, v \in {5, 10}}
    \cup {RolledOnce(Request(1, ConstDice(22))),
          RolledOnce(Request(1, ConstDice(TotalOverflow))),
          RolledOnce(Request(5, RepeatingDice(<<1, 2, 3, 2, 1>>)))}

FudgeRolls ==
    {RolledOnce(Request(n, FudgeConstDice(Plus))) : n \in 0..MaxCount}
    \cup {RolledOnce(Request(3, FudgeRepeatingDice(<<Blank, Plus, Minus>>)))}

ListsOf(S) == UNION {[1..n -> S] : n \in 0..MaxRolls}

\* WideRolls requests of WideCount dice of one side: every value is 1.
WideSession ==
    [i \in 1..WideRolls |-> RolledOnce(Request(WideCount, NumberedDice(1)))]

AggregateInit ==
    /\ \E type \in {"numeric", "fudge"} :
          \E rs \in IF type = "numeric"
                    THEN ListsOf(NumericRolls) \cup {WideSession}
                    ELSE ListsOf(FudgeRolls) :
             session = [NewSession(type, <<>>) EXCEPT !.rolls = rs]
    /\ stage = "aggregate"
    /\ input = <<>>
    /\ default_total = FALSE
    /\ locals = NoLocals
    /\ res = NoRes
    /\ outcome = "none"
    /\ applied = <<>>
    /\ report = <<>>
    /\ dice = AggregationResult
    /\ number = 0
    /\ rolls = <<>>
    /\ status = "ok"
    /\ action = NoAction
    /\ before = <<>>
    /\ pc = "session"
    /\ frames = <<>>
    /\ complete = TRUE
    /\ odd = FALSE
    /\ more = FALSE

\* self.rolls.total() on the Rolls of a numeric session; `before` keeps the
\* Rolls it was called on.
TakeTotal ==
    /\ stage = "aggregate"
    /\ session.type = "numeric"
    /\ \E o \in TotalSum(session.rolls) :
          /\ status' = o.status
          /\ session' = IF o.status = "ok"
                        THEN [session EXCEPT !.rolls = o.rolls, !.aggregated = TRUE]
                        ELSE session
    /\ before' = session.rolls
    /\ stage' = "totalled"
    /\ UNCHANGED <<dice, rolls, action, pc, frames, complete, odd, more, number,
                   input, default_total, locals, res, outcome, applied, report>>

\* session.count().
TakeCount ==
    /\ stage = "aggregate"
    /\ \E o \in CountValues(session.rolls) :
          /\ status' = o.status
          /\ session' = IF o.status = "ok" THEN Aggregated(o.rolls) ELSE session
    /\ before' = session.rolls
    /\ stage' = "counted"
    /\ UNCHANGED <<dice, rolls, action, pc, frames, complete, odd, more, number,
                   input, default_total, locals, res, outcome, applied, report>>

AggregateNext ==
    \/ TakeTotal
    \/ TakeCount

AggregateSpec == AggregateInit /\ [][AggregateNext]_vars

(***************************************************************************)
(* The textual report: get_results of the sessions of a MultiTypeSession.  *)
(***************************************************************************)
\* The strings of ws one after the other with sep between two of them
\* (collect::<Vec<String>>().join(sep); collect::<String>() for no sep).
RECURSIVE Joined(_, _)
Joined(ws, sep) ==
    IF ws = <<>> THEN <<>>
    ELSE IF Len(ws) = 1 THEN ws[1]
    ELSE ws[1] \o sep \o Joined(Tail(ws), sep)

\* Display for NumericRoll (decimal) and for FudgeRoll.
DigitChars(v) == [i \in DOMAIN ToDigits(v) |-> DecimalDigits[ToDigits(v)[i] + 1]]
FudgeChar(v) ==
    CASE v = Blank -> "0"
      [] v = Plus -> "+"
      [] v = Minus -> "-"
RollText(type, v) == IF type = "numeric" THEN DigitChars(v) ELSE <<FudgeChar(v)>>

\* Display for the dice, and for a request: the count, then the dice.
DiceText(d) ==
    CASE d.kind = "NumberedDice" -> <<"D">> \o DigitChars(d.sides)
      [] d.kind = "ConstDice" -> <<"+">> \o DigitChars(d.value)
      [] d.kind = "FudgeConstDice" -> <<"+", FudgeChar(d.value)>>
      [] d.kind = "FudgeDice" -> <<"F">>
      [] d.kind = "RepeatingDice" ->
            <<"[">> \o Flatten([i \in DOMAIN d.values |->
                                   DigitChars(d.values[i]) \o <<",">>])
                   \o <<".", ".", ".", "]">>
      [] d.kind = "FudgeRepeatingDice" ->
            <<"[">> \o Flatten([i \in DOMAIN d.values |->
                                   <<FudgeChar(d.values[i]), ",">>])
                   \o <<".", ".", ".", "]">>
RequestText(q) == DigitChars(q.number) \o DiceText(q.dice)

\* Display for the results of one request: "{}: {}", the description and
\* the values joined by a space.
DisplayRolls(type, r) ==
    r.description \o <<":", " ">>
        \o Joined([i \in DOMAIN r.rolls |-> RollText(type, r.rolls[i])], <<" ">>)

\* Session::get_results of a typed session: the results, each to_string(),
\* collected into one String.
GetResults(sess) ==
    Joined([i \in DOMAIN sess.rolls |-> DisplayRolls(sess.type, sess.rolls[i])], <<>>)

\* get_results of the sub-sessions, the numeric one first, joined by "\n".
FullGetResults(r) ==
    Joined([i \in DOMAIN (r.numeric_session \o r.fudge_session) |->
               GetResults((r.numeric_session \o r.fudge_session)[i])],
           <<"\n">>)

\* The results a report is made of: the Rolls of small requests, described
\* by their request, one or two to a session.
ReportRolls(requests) ==
    UNION {{Rolls(q.dice, r.values, RequestText(q)) :
               r \in {x \in Roll(q.number, q.dice) : ~x.panic}} : q \in requests}
ReportSessions(type, requests) ==
    {<<>>} \cup
    {<<[NewSession(type, <<>>) EXCEPT !.rolls = rs]>> :
        rs \in [1..1 -> ReportRolls(requests)] \cup [1..2 -> ReportRolls(requests)]}

ReportInit ==
    /\ \E ns \in ReportSessions("numeric",
                    {Request(n, NumberedDice(2)) : n \in 1..MaxCount}
                        \cup {Request(1, ConstDice(15))}) :
       \E fs \in ReportSessions("fudge",
                    {Request(1, FudgeDice), Request(2, FudgeConstDice(Plus))}) :
          res = [numeric_session |-> ns, fudge_session |-> fs]
    /\ stage = "report"
    /\ report = <<>>
    /\ input = <<>>
    /\ default_total = FALSE
    /\ locals = NoLocals
    /\ session = <<>>
    /\ outcome = "ok"
    /\ applied = <<>>
    /\ dice = NoDice
    /\ number = 0
    /\ rolls = <<>>
    /\ status = "ok"
    /\ action = NoAction
    /\ before = <<>>
    /\ pc = "session"
    /\ frames = <<>>
    /\ complete = TRUE
    /\ odd = FALSE
    /\ more = FALSE

\* The caller prints the results of what parse_request returned.
Render ==
    /\ stage = "report"
    /\ report' = FullGetResults(res)
    /\ stage' = "rendered"
    /\ UNCHANGED <<rvars, number, input, default_total, locals, session, res,
                   outcome, applied>>

ReportSpec == ReportInit /\ [][Render]_vars

(***************************************************************************)
(* Properties.  They are stated on what an action was applied to           *)
(* (before), the action, and what it returned (status, rolls), without the *)
(* operators the actions are modelled with.                                *)
(***************************************************************************)
\* The last action has returned (or panicked).
Applied == pc \in {"applied", "ready"} /\ action # NoAction

NumericOnly ==
    {"Sum", "MultiplyBy", "FlipFlop", "RerollNumeric", "Explode",
     "KeepBest", "KeepWorst", "RerollBest", "RerollWorst"}
FudgeOnly == {"RerollFudge", "ExplodeFudge"}
Counted == {"KeepBest", "KeepWorst", "RerollBest", "RerollWorst"}

\* The values one draw of the dice can yield: a repeating dice restarts its
\* sequence at every roll, so that one draw yields its first value.
SingleDraw(d) ==
    CASE d.kind \in {"ConstDice", "FudgeConstDice"} -> {d.value}
      [] d.kind = "NumberedDice" -> 1..d.sides
      [] d.kind \in {"RepeatingDice", "FudgeRepeatingDice"} -> {d.values[1]}
      [] d.kind = "FudgeDice" -> FudgeRoll

\* The values any draw of the dice can yield.
AnyDraw(d) ==
    IF d.kind \in {"RepeatingDice", "FudgeRepeatingDice"}
    THEN Range(d.values)
    ELSE SingleDraw(d)

\* Number of elements of s that satisfy the test.
HowMany(s, Test(_)) == Cardinality({i \in DOMAIN s : Test(s[i])})

Ascending(s) == \A i \in 1..(Len(s) - 1) : s[i] <= s[i + 1]

Smaller(a, b) == IF a < b THEN a ELSE b

\* t holds the n largest elements of s, duplicates counted.
LargestOf(t, s, n) ==
    /\ Len(t) = n
    /\ Range(t) \subseteq Range(s)
    /\ \A v \in Range(s) :
          HowMany(t, LAMBDA x : x >= v) = Smaller(n, HowMany(s, LAMBDA x : x >= v))

\* t holds the n smallest elements of s, duplicates counted.
SmallestOf(t, s, n) ==
    /\ Len(t) = n
    /\ Range(t) \subseteq Range(s)
    /\ \A v \in Range(s) :
          HowMany(t, LAMBDA x : x <= v) = Smaller(n, HowMany(s, LAMBDA x : x <= v))

\* C1: a numeric-only action on a fudge roll, and a fudge-only action on a
\* numeric roll, return IncompatibleAction and leave the roll as it was;
\* every numeric-only action with a valid parameter on a numeric roll of a
\* constant or numbered dice succeeds, and so does RerollFudge on a fudge
\* roll.
C1_Compatibility ==
    Applied =>
        /\ (\/ IsFudge(dice) /\ action.name \in NumericOnly
            \/ IsNumeric(dice) /\ action.name \in FudgeOnly)
           => status = "IncompatibleAction" /\ rolls = before
        /\ (/\ dice.kind \in {"ConstDice", "NumberedDice"}
            /\ action.name \in NumericOnly
            /\ action.name \in Counted => action.n <= Len(before))
           => status = "ok"
        /\ (IsFudge(dice) /\ action.name = "RerollFudge") => status = "ok"

\* A numeric-only action without parameter on the roll of a constant dice
\* has aborted the program.
C1_CompatiblePanics ==
    /\ Applied
    /\ dice.kind = "ConstDice"
    /\ action.name \in NumericOnly \ Counted
    /\ status = "panic"

\* C2: while explode() runs and when it has returned, the first call holds
\* the original rolls and each further call holds exactly as many rolls as
\* the call before it has explosion values; the calls stop after the first
\* one without explosion value, and the result is the calls' rolls in order.
C2_ExplodeBatches ==
    (/\ action.name \in {"Explode", "ExplodeFudge"}
     /\ frames # <<>>
     /\ complete
     /\ status = "ok")
    => /\ frames[1] = before
       /\ \A i \in 1..(Len(frames) - 1) :
             /\ Len(frames[i + 1])
                  = HowMany(frames[i], LAMBDA x : x \in action.values)
             /\ frames[i] # <<>>
       /\ pc # "exploding" =>
             /\ Top = <<>>
             /\ rolls = Flatten(frames)

\* A call of explode() on rolls with 256 explosion values or more has drawn
\* 256 rolls fewer than that.
C2_CountTruncated ==
    /\ pc = "exploding"
    /\ Len(frames) >= 2
    /\ complete
    /\ HowMany(frames[1], LAMBDA x : x \in action.values) >= DiceNumberRange
    /\ Len(frames[2]) = HowMany(frames[1], LAMBDA x : x \in action.values)
                          - DiceNumberRange

\* C3 as written: when the dice has an achievable value outside the
\* explosion values (for a repeating dice: any value of its sequence),
\* explode() eventually reaches rolls without explosion value and returns
\* (under fair random draws).
C3_Achievable == \E v \in AnyDraw(dice) : v \notin action.values
C3_OneDraw == \E v \in SingleDraw(dice) : v \notin action.values
C4_RerollInPlace ==
    (Applied /\ action.name \in {"RerollNumeric", "RerollFudge"} /\ status = "ok")
    => /\ Len(rolls) = Len(before)
       /\ \A i \in DOMAIN before :
             IF before[i] \in action.values
             THEN rolls[i] \in SingleDraw(dice)
             ELSE rolls[i] = before[i]

\* A reroll has replaced a roll by a draw that is in the set again, and has
\* kept another roll.
C4_RedrawnOnce ==
    /\ Applied
    /\ action.name = "RerollNumeric"
    /\ status = "ok"
    /\ \E i, j \in DOMAIN before :
          /\ before[i] \in action.values
          /\ rolls[i] \in action.values
          /\ rolls[i] # before[i]
          /\ before[j] \notin action.values
          /\ rolls[j] = before[j]

\* The request "2D6 reroll(1)", applied.
C5_Request ==
    /\ Applied
    /\ dice = NumberedDice(6)
    /\ Len(before) = 2
    /\ action = Act("RerollNumeric", {1}, 0)
    /\ status = "ok"

\* C5 as amended: after "2D6 reroll(1)" a value 1 of the result is always a
\* fresh draw (it sits where the original roll was 1); no roll that was kept
\* equals 1.
C5_OnesAreRedrawn ==
    C5_Request =>
        /\ Len(rolls) = 2
        /\ \A i \in DOMAIN rolls : rolls[i] \in 1..6
        /\ \A i \in DOMAIN rolls : rolls[i] = 1 => before[i] = 1

\* C5 as written: after "2D6 reroll(1)" no value of the result equals 1.
C5_NoOneLeft == C5_Request => \A i \in DOMAIN rolls : rolls[i] # 1

\* Both rolls were 1; one was redrawn as 1 and the other as another value.
C5_RedrawnAsOne ==
    /\ C5_Request
    /\ before = <<1, 1>>
    /\ rolls[1] = 1
    /\ rolls[2] # 1

\* C6: with n at most the number of rolls, KeepBest(n) returns the n largest
\* rolls and KeepWorst(n) the n smallest ones, duplicates kept, in ascending
\* order: nothing for n = 0, all the rolls sorted for n their number.
C6_KeepOfSorted ==
    (/\ Applied
     /\ IsNumeric(dice)
     /\ action.name \in {"KeepBest", "KeepWorst"}
     /\ action.n <= Len(before))
    => /\ status = "ok"
       /\ Ascending(rolls)
       /\ action.name = "KeepBest" => LargestOf(rolls, before, action.n)
       /\ action.name = "KeepWorst" => SmallestOf(rolls, before, action.n)

\* KeepBest(3) of 1 2 3 2 1 has returned 2 2 3.
C6_KeptBest ==
    /\ Applied
    /\ action = Act("KeepBest", {}, 3)
    /\ before = <<1, 2, 3, 2, 1>>
    /\ status = "ok"
    /\ rolls = <<2, 2, 3>>

\* C7: KeepBest, KeepWorst, RerollBest and RerollWorst with a number above
\* the number of rolls return BadActionParameter and no rolls.
C7_TooManyIsAnError ==
    (/\ Applied
     /\ IsNumeric(dice)
     /\ action.name \in Counted
     /\ action.n > Len(before))
    => status = "BadActionParameter" /\ rolls = before

\* KeepWorst has been refused for one roll more than there are.
C7_OneTooMany ==
    /\ Applied
    /\ IsNumeric(dice)
    /\ action.name = "KeepWorst"
    /\ before # <<>>
    /\ action.n = Len(before) + 1
    /\ status = "BadActionParameter"
    /\ rolls = before

\* C8: for n at most the number of rolls, every value occurs in
\* KeepBest(n) and in KeepWorst(len - n) of the same rolls together as
\* often as in the rolls.
C8_KeepComplementary ==
    (/\ Applied
     /\ IsNumeric(dice)
     /\ action.name = "KeepBest"
     /\ action.n <= Len(before))
    => LET worst == KeepWorst(before, Len(before) - action.n)
       IN  /\ status = "ok"
           /\ worst.status = "ok"
           /\ Len(rolls) + Len(worst.rolls) = Len(before)
           /\ \A v \in Range(before) \cup Range(rolls) \cup Range(worst.rolls) :
                 HowMany(rolls, LAMBDA x : x = v)
                   + HowMany(worst.rolls, LAMBDA x : x = v)
                 = HowMany(before, LAMBDA x : x = v)

\* KeepBest(2) of 1 2 3 2 1 has returned 2 3: the cut falls between the two
\* rolls of value 2.
C8_CutBetweenEquals ==
    /\ Applied
    /\ action = Act("KeepBest", {}, 2)
    /\ before = <<1, 2, 3, 2, 1>>
    /\ rolls = <<2, 3>>
    /\ KeepWorst(before, 3) = Ok(<<1, 1, 2>>)

\* C9: for n at most the number of rolls, RerollBest(n) returns the len - n
\* smallest rolls in ascending order and then n draws of the dice,
\* RerollWorst(n) the len - n largest ones and then n draws: len values.
C9_RerollBestWorst ==
    (/\ Applied
     /\ IsNumeric(dice)
     /\ action.name \in {"RerollBest", "RerollWorst"}
     /\ action.n <= Len(before))
    => LET kept == Take(rolls, Len(before) - action.n)
       IN  /\ status = "ok"
           /\ Len(rolls) = Len(before)
           /\ Ascending(kept)
           /\ action.name = "RerollBest"
                 => SmallestOf(kept, before, Len(before) - action.n)
           /\ action.name = "RerollWorst"
                 => LargestOf(kept, before, Len(before) - action.n)
           /\ \A i \in DOMAIN rolls :
                 i > Len(before) - action.n => rolls[i] \in AnyDraw(dice)

\* A RerollBest or RerollWorst of 256 rolls or more has returned 256 values
\* fewer than it was given.
C9_KeptTruncated ==
    /\ Applied
    /\ action.name \in {"RerollBest", "RerollWorst"}
    /\ status = "ok"
    /\ Len(before) >= DiceNumberRange
    /\ action.n <= Len(before)
    /\ Len(rolls) = Len(before) - DiceNumberRange

\* 10 to the power k.
RECURSIVE Pow10(_)
Pow10(k) == IF k = 0 THEN 1 ELSE 10 * Pow10(k - 1)

\* floor(log10(m)) + 1 for m from 1 to 65535.
DigitWidth(m) == CHOOSE w \in 1..5 : Pow10(w - 1) <= m /\ m < Pow10(w)

\* The number whose w digits are those of v (below 10^w) from last to first.
RECURSIVE Reversed(_, _)
Reversed(v, w) ==
    IF w = 0 THEN 0
    ELSE (v % 10) * Pow10(w - 1) + Reversed(v \div 10, w - 1)

\* The maximum of the dice: its value, its sides, or the largest value of
\* its sequence.
MaxOfDice(d) ==
    CASE d.kind = "ConstDice" -> d.value
      [] d.kind = "NumberedDice" -> d.sides
      [] d.kind = "RepeatingDice" ->
            CHOOSE m \in Range(d.values) : \A x \in Range(d.values) : x <= m

\* C10: FlipFlop returns, at each index, the roll written with W digits and
\* read from last to first, W the number of digits of the dice's maximum.
C10_FlipFlop ==
    (Applied /\ IsNumeric(dice) /\ action.name = "FlipFlop")
    => /\ status = "ok"
       /\ Len(rolls) = Len(before)
       /\ \A i \in DOMAIN before :
             rolls[i] = Reversed(before[i], DigitWidth(MaxOfDice(dice)))

\* FlipFlop on the roll 10007 of the constant dice 10007, whose digits
\* reversed are 70001, has aborted the program.
C10_FlipOverflows ==
    /\ Applied
    /\ action.name = "FlipFlop"
    /\ before = <<FlipOverflow>>
    /\ Reversed(FlipOverflow, 5) >= NumericRollRange
    /\ status = "panic"

\* FlipFlop with maximum 100 has turned 1 1 1 15 100 into 100 100 100 510 1.
C10_Flipped ==
    /\ Applied
    /\ action.name = "FlipFlop"
    /\ before = <<1, 1, 1, 15, 100>>
    /\ rolls = <<100, 100, 100, 510, 1>>

\* C20: a repeating dice rolled for n values returns exactly n values, the
\* i-th of them (from 0) the value of the sequence at i mod its length, for
\* every n of a DiceNumber; a second roll returns the same values, from the
\* beginning of the sequence again.
C20_RepeatingCycles ==
    (pc \in {"rolled", "rolled again"} /\ dice.kind = "RepeatingDice") =>
        /\ status = "ok"
        /\ Len(rolls) = number
        /\ \A i \in 0..(number - 1) :
               rolls[i + 1] = dice.values[(i % Len(dice.values)) + 1]
        /\ pc = "rolled again" => rolls = before

\* The second roll of 255 values of a sequence of 2: more values than the
\* sequence has, and no multiple of its length.
C20_CycledPastTheEnd ==
    /\ pc = "rolled again"
    /\ dice.kind = "RepeatingDice"
    /\ number = DiceNumberRange - 1
    /\ Len(dice.values) = 2
    /\ number % Len(dice.values) # 0
    /\ Len(rolls) = number

\* C11: Total over a list of numeric Rolls returns one aggregation result
\* whose single value is the sum of every value of every Rolls, and 0 for
\* the empty list; it never fails.
C11_TotalIsTheSum ==
    stage = "totalled" =>
        /\ status = "ok"
        /\ session.rolls =
               <<Rolls(AggregationResult, <<SeqSum(AllRolls(before))>>,
                       Description("TOTAL SUM", 0))>>

\* The total of two Rolls of one value each whose sum does not fit
\* NumericRoll: a panic, or the sum wrapped.
C11_TotalOverflows ==
    /\ stage = "totalled"
    /\ Len(before) = 2
    /\ SeqSum(AllRolls(before)) = 2 * TotalOverflow
    /\ \/ status = "panic"
       \/ session.rolls[1].rolls = <<(2 * TotalOverflow) % NumericRollRange>>

\* C12: CountValues over a session returns a numeric session with exactly
\* one result for each value present in the Rolls of the session and none
\* for any other value; each result is described as COUNT(value) and holds
\* one element, the number of occurrences of the value; the counts add up to
\* the number of values of the session.
C12_CountValues ==
    stage = "counted" =>
        LET all_rolls == AllRolls(before)
            results == session.rolls
        IN  /\ status = "ok"
            /\ session.type = "numeric"
            /\ Len(results) = Cardinality(Range(all_rolls))
            /\ \A v \in Range(all_rolls) :
                  Cardinality({i \in DOMAIN results :
                                  results[i].description = Description("COUNT", v)}) = 1
            /\ \A i \in DOMAIN results :
                  /\ results[i].dice = AggregationResult
                  /\ results[i].description.tag = "COUNT"
                  /\ results[i].description.of \in Range(all_rolls)
                  /\ results[i].rolls =
                         <<Cardinality({k \in DOMAIN all_rolls :
                                           all_rolls[k] = results[i].description.of})>>
            /\ SeqSum([i \in DOMAIN results |-> results[i].rolls[1]]) = Len(all_rolls)

\* The count of a session in which one value occurs more often than a
\* NumericRoll can count: a panic, or a count that wrapped.
C12_CountOverflows ==
    /\ stage = "counted"
    /\ Len(before) = WideRolls
    /\ Len(AllRolls(before)) >= NumericRollRange
    /\ \/ status = "panic"
       \/ session.rolls = <<Rolls(AggregationResult,
                                  <<Len(AllRolls(before)) - NumericRollRange>>,
                                  Description("COUNT", 1))>>

\* The steps taken on the session of one type, in order.
EventsOf(type) == SelectSeq(applied, LAMBDA e : e.type = type)
IsTotal(e) == e.op = "global" /\ e.action.name = "Total"
\* An action applied to the Rolls of one request or of every request.
IsPerRoll(e) == e.op = "private" \/ (e.op = "global" /\ e.action.name # "Total")
IsPrefix(s, t) == Len(s) <= Len(t) /\ s = SubSeq(t, 1, Len(s))

\* C13: within one session no action is applied to the Rolls once Total or
\* CountValues has been applied, whatever the request string, also when
\* `total` is not its last action token.
C13_AggregationIsLast ==
    \A i, j \in DOMAIN applied :
        (/\ i < j
         /\ applied[i].type = applied[j].type
         /\ IsTotal(applied[i]) \/ applied[i].op = "count")
            => ~IsPerRoll(applied[j])

\* A string whose `total` has an action after it: the total was applied,
\* the action after it was refused and parse_request returned the error.
C13_ActionAfterTotalRefused ==
    /\ stage = "returned"
    /\ outcome = "IncompatibleAction"
    /\ session.type = "numeric"
    /\ session.aggregated
    /\ session.global_done < Len(locals.actions)
    /\ locals.actions[session.global_done].name = "Total"
    /\ locals.actions[session.global_done + 1].name = "MultiplyBy"
    /\ IsTotal(applied[Len(applied)])

\* The requests parse_request collected for the session of one type.
RequestsOf(type) ==
    IF type = "numeric" THEN locals.num_request_dice ELSE locals.fudge_request_dice

\* Rolling comes first, then the requests' own actions, then the global
\* actions, then the aggregation.
Rank(e) ==
    CASE e.op = "roll" -> 1
      [] e.op = "private" -> 2
      [] e.op = "global" -> 3
      [] e.op = "count" -> 4

\* The global actions a session is given: those of the string, or the
\* default Total of the numeric session; no session is made of no request.
GlobalsOf(type) ==
    IF RequestsOf(type) = <<>> THEN <<>>
    ELSE IF type = "numeric" /\ TotalByDefault
    THEN <<Act("Total", {}, 0)>>
    ELSE locals.actions

\* What has been done so far on the session of one type is the beginning of:
\* each request rolled once in input order, for each request its own actions
\* in written order, the global actions in written order, one aggregation.
InOrder(type) ==
    LET E == EventsOf(type)
        requests == RequestsOf(type)
        Of(op) == SelectSeq(E, LAMBDA e : e.op = op)
    IN  /\ \A k, l \in DOMAIN E : k < l => Rank(E[k]) <= Rank(E[l])
        /\ IsPrefix(Of("roll"),
                    [i \in DOMAIN requests |-> Event("roll", type, i, NoAction)])
        /\ \A e \in Range(Of("private")) : e.request \in DOMAIN requests
        /\ \A i \in DOMAIN requests :
              IsPrefix(SelectSeq(Of("private"), LAMBDA e : e.request = i),
                       [j \in DOMAIN requests[i].actions |->
                           Event("private", type, i, requests[i].actions[j])])
        /\ IsPrefix(Of("global"),
                    [j \in DOMAIN GlobalsOf(type) |->
                        Event("global", type, 0, GlobalsOf(type)[j])])
        /\ Len(Of("count")) <= (IF locals.aggregation = "CountValues" THEN 1 ELSE 0)
        \* nothing is started before what precedes it is complete
        /\ Of("private") # <<>> => Len(Of("roll")) = Len(requests)
        /\ Of("global") # <<>> \/ Of("count") # <<>> =>
              /\ Len(Of("roll")) = Len(requests)
              /\ \A i \in DOMAIN requests :
                    Len(SelectSeq(Of("private"), LAMBDA e : e.request = i))
                        = Len(requests[i].actions)
        /\ Of("count") # <<>> => Len(Of("global")) = Len(GlobalsOf(type))

\* The session that is returned went through every step.
Completed(type) ==
    LET E == EventsOf(type)
        requests == RequestsOf(type)
    IN  Len(E) = Len(requests)
                 + Len(PrivateSteps(requests))
                 + Len(GlobalsOf(type))
                 + (IF locals.aggregation = "CountValues" /\ requests # <<>>
                    THEN 1 ELSE 0)

\* A step that applied an action of the i-th request left the Rolls of the
\* other requests as they were; a step that applied a global action applied
\* it to the Rolls of every request as they were.
OwnActionIsPrivate ==
    (Len(applied') = Len(applied) + 1 /\ applied'[Len(applied')].op = "private") =>
        LET e == applied'[Len(applied')] IN
        /\ Len(session'.rolls) = Len(session.rolls)
        /\ \A k \in DOMAIN session.rolls :
              k # e.request => session'.rolls[k] = session.rolls[k]
        /\ \E o \in ApplyRolls(session.type, session.rolls[e.request], e.action) :
              o.status = "ok" /\ session'.rolls[e.request] = o.rolls[1]

GlobalActionIsForAll ==
    (/\ Len(applied') = Len(applied) + 1
     /\ applied'[Len(applied')].op = "global"
     /\ applied'[Len(applied')].action.name # "Total"
     /\ stage' # "returned") =>
        LET e == applied'[Len(applied')] IN
        /\ Len(session'.rolls) = Len(session.rolls)
        /\ \A k \in DOMAIN session.rolls :
              \E o \in ApplyRolls(session.type, session.rolls[k], e.action) :
                  o.status = "ok" /\ session'.rolls[k] = o.rolls[1]

\* C14: for each sub-session every request is rolled once, then the own
\* actions of each request are applied in written order to that request
\* only, then the global actions in written order to every request's
\* current result, and only then the aggregation.
C14_OrchestrationOrder ==
    /\ [](locals.status = "ok" =>
            /\ InOrder("numeric")
            /\ InOrder("fudge")
            /\ (stage = "returned" /\ outcome = "ok") =>
                  Completed("numeric") /\ Completed("fudge"))
    /\ [][OwnActionIsPrivate /\ GlobalActionIsForAll]_vars

\* A group with two actions of its own after another request, with a global
\* action and a count: all were applied and the session was returned.
C14_AllStepsTaken ==
    /\ stage = "returned"
    /\ outcome = "ok"
    /\ Len(locals.num_request_dice) >= 2
    /\ \E i \in DOMAIN locals.num_request_dice :
          Len(locals.num_request_dice[i].actions) >= 2
    /\ locals.actions # <<>>
    /\ locals.aggregation = "CountValues"
    /\ Completed("numeric")

\* The step that fails applies nothing, and no step follows the return.
FailureEndsTheCall ==
    /\ stage # "returned"
    /\ (stage' = "returned" /\ outcome' # "ok") =>
          /\ applied' = applied
          /\ session' = session
          /\ stage = "called" => outcome' = ReadRequest(input).status

\* C15: when parsing or the application of an action fails, parse_request
\* returns that error and no session: nothing is applied after the failure,
\* and the numeric session built before a failure of the fudge session is
\* not returned.
C15_FirstErrorNoSession ==
    /\ []((stage = "returned" /\ outcome # "ok") =>
            /\ res = NoRes
            /\ outcome \in {"Parse", "IncompatibleAction", "BadActionParameter", "panic"}
            /\ outcome = "Parse" => applied = <<>> /\ session = <<>>)
    /\ [][FailureEndsTheCall]_vars

\* The numeric session was built, its actions applied, and put in res; then
\* an action failed on the fudge session and the call returned the error.
C15_FudgeFailsAfterNumeric ==
    /\ stage = "returned"
    /\ outcome = "IncompatibleAction"
    /\ session.type = "fudge"
    /\ locals.num_request_dice # <<>>
    /\ Completed("numeric")
    /\ EventsOf("fudge") # <<>>
    /\ res = NoRes

\* The action each action token stands for: `sum` the Sum of each request,
\* `total` the Total of all, `flip` FlipFlop, x<N> MultiplyBy(N),
\* keep-best(N), keep-worst(N), reroll-best(N), reroll-worst(N) the variant
\* of that name with N.
VariantOf(m) ==
    CASE m.rule = "action_sum" -> Act("Sum", {}, 0)
      [] m.rule = "action_total" -> Act("Total", {}, 0)
      [] m.rule = "action_flip" -> Act("FlipFlop", {}, 0)
      [] m.rule = "action_mult" -> Act("MultiplyBy", {}, Decimal(m.param))
      [] m.rule = "action_keep_best" -> Act("KeepBest", {}, Decimal(m.param))
      [] m.rule = "action_keep_worst" -> Act("KeepWorst", {}, Decimal(m.param))
      [] m.rule = "action_reroll_best" -> Act("RerollBest", {}, Decimal(m.param))
      [] m.rule = "action_reroll_worst" -> Act("RerollWorst", {}, Decimal(m.param))
      [] OTHER -> ParseAction(m).action

\* The action tokens of the string outside groups, and its groups.
GlobalTokens == SelectSeq(Grammar(input).pairs, LAMBDA p : p.rule = "action")
Groups == SelectSeq(Grammar(input).pairs, LAMBDA p : p.rule = "dice_and_action")

\* C16: the parser maps each action token to its own variant: `sum` to Sum,
\* `total` to Total, `flip` to FlipFlop, x<N> to MultiplyBy(N), keep-best,
\* keep-worst, reroll-best and reroll-worst(N) to their variant with N.
C16_ActionVariants ==
    locals.status = "ok" =>
        /\ locals.actions =
              [k \in DOMAIN GlobalTokens |-> VariantOf(GlobalTokens[k].actions[1])]
        /\ {<<q.id, q.actions>> :
                q \in {q \in Range(locals.num_request_dice \o locals.fudge_request_dice) :
                          q.id # <<>>}}
              = {<<Groups[g].id,
                   [j \in DOMAIN Groups[g].actions |-> VariantOf(Groups[g].actions[j])]>> :
                    g \in DOMAIN Groups}

\* "2D2 +3 sum" and the like: `sum` was read as Total, and the session
\* returned for two requests holds one Rolls, their total.
C16_SumReadAsTotal ==
    /\ stage = "returned"
    /\ outcome = "ok"
    /\ Len(locals.num_request_dice) = 2
    /\ Len(GlobalTokens) = 1
    /\ GlobalTokens[1].actions[1].rule = "action_sum"
    /\ locals.actions = <<Act("Total", {}, 0)>>
    /\ Len(res.numeric_session) = 1
    /\ Len(res.numeric_session[1].rolls) = 1

\* The dice tokens of the string in input order, those of groups included.
DiceTokens ==
    LET withDice == SelectSeq(Grammar(input).pairs,
                              LAMBDA p : p.rule \in {"dice", "dice_and_action"})
    IN  [i \in DOMAIN withDice |-> withDice[i].dice]

\* The count written in a dice token, 1 when there is none.
NumberOf(m) == IF m.dice_number = <<>> THEN 1 ELSE Decimal(m.dice_number)

\* The count and dice of each request of a list.
Typed(requests) ==
    [i \in DOMAIN requests |-> <<requests[i].number, requests[i].dice>>]

\* C17: <N>D<S> or <N>d<S> yields a numeric request of N dice of S sides,
\* +<N> a numeric request of one constant dice of value N, <N>F a fudge
\* request of N fudge dice, N being 1 when omitted; the numeric requests go
\* to the numeric list only, the fudge requests to the fudge list only, each
\* in input order.
C17_DiceTokens ==
    (stage # "called" /\ Grammar(input).status = "ok") =>
        LET numeric == SelectSeq(DiceTokens, LAMBDA m : m.rule # "fudge_dice")
            fudge == SelectSeq(DiceTokens, LAMBDA m : m.rule = "fudge_dice")
        IN  /\ locals.status = "ok"
            /\ Typed(locals.num_request_dice) =
                  [i \in DOMAIN numeric |->
                      IF numeric[i].rule = "numbered_dice"
                      THEN <<NumberOf(numeric[i]),
                             NumberedDice(Decimal(numeric[i].dice_sides))>>
                      ELSE <<1, ConstDice(Decimal(numeric[i].dice_sides))>>]
            /\ Typed(locals.fudge_request_dice) =
                  [i \in DOMAIN fudge |-> <<NumberOf(fudge[i]), FudgeDice>>]

\* "F +5 2F": a fudge dice without count, a constant, two fudge dice.
C17_MixedDiceRead ==
    /\ stage # "called"
    /\ Len(DiceTokens) = 3
    /\ DiceTokens[1].rule = "fudge_dice" /\ DiceTokens[1].dice_number = <<>>
    /\ DiceTokens[2].rule = "num_const_dice"
    /\ DiceTokens[3].rule = "fudge_dice" /\ DiceTokens[3].dice_number # <<>>
    /\ Typed(locals.num_request_dice) = <<<<1, ConstDice(5)>>>>
    /\ Typed(locals.fudge_request_dice) = <<<<1, FudgeDice>>, <<2, FudgeDice>>>>

\* The strings of tests::read_ko and the identifier outside parentheses of
\* tests::read_request_with_id.
RejectedRequests ==
    { <<"5">>, <<"D", "a">>, <<"5", "D", " ", "2", "0">>, <<"D", "8", "D">>,
      <<"F", "8">>, <<"+">>, <<"8", "+">>, <<"+", "8", "+">>, <<"2", "+", "8">>,
      <<"F", "I", "R", "E", " ", "+", "5">> }

\* C18: a bare number, a dice with non-numeric or missing sides, garbage
\* after a dice, a constant with no value or a misplaced sign, and an
\* identifier outside parentheses make parse_request return an error, never
\* a session made of a default.
C18_MalformedRejected ==
    (input \in RejectedRequests /\ stage # "called") =>
        /\ stage = "returned"
        /\ outcome = "Parse"
        /\ res = NoRes
        /\ applied = <<>>

\* parse_request returned the error for "5D 20", whose first word is a dice
\* without sides and whose second is a bare number.
C18_MissingSidesRejected ==
    /\ input = <<"5", "D", " ", "2", "0">>
    /\ stage = "returned"
    /\ outcome = "Parse"
    /\ locals.status = "Parse"

\* The step that counted the values of the fudge session: its counts are
\* numeric results, put after the results of the numeric session when there
\* is one and making the numeric session otherwise; no fudge session is left.
FudgeCountsJoinNumeric ==
    (/\ Len(applied') = Len(applied) + 1
     /\ applied'[Len(applied')] = Event("count", "fudge", 0, NoAction)) =>
        /\ stage' = "returned"
        /\ res'.fudge_session = <<>>
        /\ Len(res'.numeric_session) = 1
        /\ \E o \in CountValues(session.rolls) :
              /\ o.status = "ok"
              /\ \A i \in DOMAIN o.rolls : o.rolls[i].dice = AggregationResult
              /\ IF locals.num_request_dice # <<>>
                 THEN /\ Len(res.numeric_session) = 1
                      /\ res.numeric_session[1].aggregated
                      /\ res'.numeric_session[1].rolls =
                            res.numeric_session[1].rolls \o o.rolls
                 ELSE /\ res.numeric_session = <<>>
                      /\ res'.numeric_session[1].rolls = o.rolls

\* C19: with a `count`, the counts of the fudge session are numeric results
\* appended after the (aggregated) results of the numeric session when there
\* is one, or become the numeric session; the session returned has no fudge
\* session, and never more than one numeric and one fudge session.
C19_FudgeCountsMerged ==
    /\ [](/\ Len(res.numeric_session) <= 1
          /\ Len(res.fudge_session) <= 1
          /\ (stage = "returned" /\ outcome = "ok" /\ locals.aggregation = "CountValues")
                => /\ res.fudge_session = <<>>
                   /\ Len(res.numeric_session) = 1
                   /\ res.numeric_session[1].aggregated)
    /\ [][FudgeCountsJoinNumeric]_vars

\* "+3 F +5 count" and the like: the counts of the numeric values, then the
\* counts of the fudge values, in the one numeric session returned.
C19_BothCounted ==
    /\ stage = "returned"
    /\ outcome = "ok"
    /\ locals.aggregation = "CountValues"
    /\ locals.num_request_dice # <<>>
    /\ locals.fudge_request_dice # <<>>
    /\ res.fudge_session = <<>>
    /\ Event("count", "numeric", 0, NoAction) \in Range(applied)
    /\ applied[Len(applied)] = Event("count", "fudge", 0, NoAction)
    /\ Len(res.numeric_session[1].rolls) >= 2
    /\ \A i \in DOMAIN res.numeric_session[1].rolls :
          res.numeric_session[1].rolls[i].description.tag = "COUNT"

\* The actions that draw new values from the dice.
DrawingActions == {"RerollNumeric", "Explode", "RerollBest", "RerollWorst"}
InSides(vs) == \A i \in DOMAIN vs : 1 <= vs[i] /\ vs[i] <= dice.sides

\* C21: a numbered dice rolled for a count n returns exactly n values, each
\* from 1 to its number of sides, for every count of a DiceNumber; the
\* values drawn later by Reroll, Explode, RerollBest and RerollWorst are
\* within 1 and the number of sides too.
C21_NumberedRoll ==
    (dice.kind = "NumberedDice" /\ dice.sides >= 1) =>
        /\ (action = NoAction /\ pc = "ready") =>
              /\ status = "ok"
              /\ Len(rolls) = number
              /\ InSides(rolls)
        /\ (/\ action.name \in DrawingActions
            /\ pc \in {"ready", "applied"}
            /\ status = "ok"
            /\ InSides(before)) => InSides(rolls)
        /\ (pc = "exploding" /\ InSides(before)) =>
              \A f \in DOMAIN frames : InSides(frames[f])

\* 255 dice of one side were asked for, and no value came back: the roll
\* returned an empty sequence, or never returned.
C21_NoneOf255 ==
    /\ dice = NumberedDice(1)
    /\ number = DiceNumberRange - 1
    /\ action = NoAction
    /\ rolls = <<>>

\* The dice that are rolled are those the constructor returned.
HasDice == pc \in {"request", "rolled", "rolled again"}

\* C22: RepeatingDice::new fails with BadDice on an empty sequence, so that
\* no repeating dice without values is ever rolled, and succeeds on every
\* other sequence.
C22_EmptyRepeatingDice ==
    /\ [][pc = "new" =>
            IF before = <<>>
            THEN status' = "BadDice" /\ pc' = "failed" /\ dice' = NoDice
            ELSE status' = "ok" /\ pc' = "request" /\ dice' = RepeatingDice(before)]_vars
    /\ [](HasDice => dice.kind = "RepeatingDice" /\ dice.values # <<>>)
    /\ [](pc = "failed" => dice = NoDice /\ rolls = <<>>)
    /\ [](pc \in {"rolled", "rolled again"} => status = "ok" /\ Len(rolls) = number)

\* The constructor was given no values and returned the error: there is no
\* dice, and nothing was rolled.
C22_RefusedAtConstruction ==
    /\ pc = "failed"
    /\ before = <<>>
    /\ status = "BadDice"
    /\ dice = NoDice
    /\ ~ENABLED RollDice

\* The results of the multi-session in the order of the report, each with
\* the type of its session.
Reported ==
    LET Of(ss) == IF ss = <<>> THEN <<>>
                  ELSE [i \in DOMAIN ss[1].rolls |-> <<ss[1].type, ss[1].rolls[i]>>]
    IN  Of(res.numeric_session) \o Of(res.fudge_session)

\* The line of one result: its description, a colon and a space, its values
\* with one space between two of them.
LineOf(type, r) ==
    LET Value(i) == IF type = "numeric" THEN DigitChars(r.rolls[i])
                    ELSE <<FudgeChar(r.rolls[i])>>
        RECURSIVE From(_)
        From(i) == IF i > Len(r.rolls) THEN <<>>
                   ELSE (IF i = 1 THEN <<>> ELSE <<" ">>) \o Value(i) \o From(i + 1)
    IN  r.description \o <<":", " ">> \o From(1)

\* C23: the report has one line for each result, "<description>: <value>
\* <value> ...", the lines separated by newlines, those of one session too,
\* the numeric results before the fudge results.
C23_ReportLines ==
    stage = "rendered" =>
        LET lines == Split(report, "\n") IN
        /\ Len(lines) = Len(Reported)
        /\ \A i \in DOMAIN Reported :
              lines[i] = LineOf(Reported[i][1], Reported[i][2])

\* Two numeric results and no fudge result: the report has no newline, the
\* second result follows the last value of the first.
C23_ResultsRunTogether ==
    /\ stage = "rendered"
    /\ Len(Reported) = 2
    /\ res.fudge_session = <<>>
    /\ \A i \in DOMAIN report : report[i] # "\n"
    /\ report = LineOf("numeric", Reported[1][2]) \o LineOf("numeric", Reported[2][2])

\* The global Total actions applied to the session of one type after every
\* global action the string asks for: the automatic one.
AutomaticTotals(type) ==
    LET G == SelectSeq(EventsOf(type), LAMBDA e : e.op = "global")
    IN  Cardinality({k \in DOMAIN G : k > Len(locals.actions) /\ IsTotal(G[k])})

\* What the automatic Total depends on: the caller's flag, no aggregation
\* read, no global action read.
TotalExpected ==
    /\ default_total
    /\ locals.aggregation = "None"
    /\ locals.actions = <<>>

\* C24: the automatic Total is applied to the numeric session if and only if
\* default_total is set, no aggregation was read and there is no global
\* action; never to the fudge session, never with count, and whatever the
\* own actions of the groups.
C24_AutomaticTotal ==
    /\ [][(stage = "apply" /\ AllApplied) =>
            IF session.type = "numeric" /\ TotalExpected
            THEN \/ /\ applied' = Append(applied,
                                         Event("global", "numeric", 0, Act("Total", {}, 0)))
                    /\ res'.numeric_session # <<>>
                    /\ res'.numeric_session[1].aggregated
                 \/ stage' = "returned" /\ outcome' # "ok"
            ELSE \/ applied' = applied
                 \/ applied'[Len(applied')].op = "count"]_vars
    /\ [](AutomaticTotals("fudge") = 0)
    /\ [](AutomaticTotals("numeric") \in {0, 1})
    /\ [](AutomaticTotals("numeric") = 1 => TotalExpected)
    /\ []((stage = "returned" /\ outcome = "ok" /\ locals.num_request_dice # <<>>) =>
            (AutomaticTotals("numeric") = 1 <=> TotalExpected))
    /\ []((\E e \in Range(applied) : e.op = "count") =>
            AutomaticTotals("numeric") = 0)

\* A group with its own two multiplications, no global action and no
\* aggregation, and a caller that asks for the default: the products were
\* totalled.
C24_TotalDespiteOwnActions ==
    /\ stage = "returned"
    /\ outcome = "ok"
    /\ default_total
    /\ locals.actions = <<>>
    /\ Len(locals.num_request_dice) = 1
    /\ Len(locals.num_request_dice[1].actions) = 2
    /\ AutomaticTotals("numeric") = 1
    /\ IsTotal(applied[Len(applied)])
    /\ res.numeric_session[1].aggregated

\* The actions that are applied to each roll and that one of the two kinds of
\* dice refuses.
TypedActions ==
    {"RerollNumeric", "RerollFudge", "Explode", "ExplodeFudge", "MultiplyBy",
     "FlipFlop", "KeepBest", "KeepWorst", "RerollBest", "RerollWorst"}

\* The string has numeric dice and fudge dice.
Mixed == locals.num_request_dice # <<>> /\ locals.fudge_request_dice # <<>>

\* C25: a request with numeric dice, fudge dice and a global reroll, explode,
\* multiply, flip, keep or reroll-best/worst action fails with
\* IncompatibleAction, whatever is rolled.
C25_MixedGlobalIncompatible ==
    (/\ stage = "returned"
     /\ locals.status = "ok"
     /\ Mixed
     /\ \E i \in DOMAIN locals.actions : locals.actions[i].name \in TypedActions)
        => outcome = "IncompatibleAction"

\* The step parse_request was taking on its session when it returned an
\* error or was aborted: the roll of a request, an action of a request, a
\* global action, or what follows the actions.
FailedStep ==
    IF ~session.aggregated /\ Len(session.rolls) < Len(session.requests)
    THEN [op |-> "roll", action |-> NoAction, targets |-> <<>>,
          request |-> Len(session.rolls) + 1]
    ELSE IF session.private_done < Len(PrivateSteps(session.requests))
    THEN LET step == PrivateSteps(session.requests)[session.private_done + 1]
         IN  [op |-> "private", action |-> session.requests[step[1]].actions[step[2]],
              targets |-> <<session.rolls[step[1]]>>, request |-> step[1]]
    ELSE IF session.global_done < Len(locals.actions)
    THEN [op |-> "global", action |-> locals.actions[session.global_done + 1],
          targets |-> session.rolls, request |-> 0]
    ELSE [op |-> "last", action |-> NoAction, targets |-> session.rolls, request |-> 0]

\* The session does not take the action of the step: it is an aggregation
\* already, or the action is for the other kind of rolls.
StepIncompatible(f) ==
    /\ f.op \in {"private", "global"}
    /\ \/ session.aggregated
       \/ session.type = "numeric" /\ f.action.name \in {"RerollFudge", "ExplodeFudge"}
       \/ session.type = "numeric" /\ f.op = "private" /\ f.action.name = "Total"
       \/ session.type = "fudge" /\ f.action.name \notin {"RerollFudge", "ExplodeFudge"}

\* The step keeps or rerolls more values than one of its Rolls holds at
\* that point.
StepCountRefused(f) ==
    /\ f.op \in {"private", "global"}
    /\ session.type = "numeric"
    /\ f.action.name \in {"KeepBest", "KeepWorst", "RerollBest", "RerollWorst"}
    /\ \E k \in DOMAIN f.targets : f.action.n > Len(f.targets[k].rolls)

\* What aborts the step: 255 random dice to roll, a product, a sum or a
\* flipped number that does not fit NumericRoll, or an explode whose new
\* rolls cannot be free of explosion values.
StepAborts(f) ==
    CASE f.op = "roll" ->
            /\ IsRandom(session.requests[f.request].dice)
            /\ session.requests[f.request].number = DiceNumberRange - 1
      [] f.op = "last" -> FALSE
      [] f.action.name = "MultiplyBy" ->
            \E k \in DOMAIN f.targets : \E i \in DOMAIN f.targets[k].rolls :
                f.targets[k].rolls[i] * f.action.n >= NumericRollRange
      [] f.action.name = "Sum" ->
            \E k \in DOMAIN f.targets : SeqSum(f.targets[k].rolls) >= NumericRollRange
      [] f.action.name = "Total" -> SeqSum(AllRolls(f.targets)) >= NumericRollRange
      [] f.action.name = "FlipFlop" ->
            \E k \in DOMAIN f.targets : \E i \in DOMAIN f.targets[k].rolls :
                LET w == DigitWidth(MaxOfDice(f.targets[k].dice))
                    v == f.targets[k].rolls[i]
                IN  v < Pow10(w) /\ Reversed(v, w) >= NumericRollRange
      [] f.action.name \in {"Explode", "ExplodeFudge"} ->
            \E k \in DOMAIN f.targets :
                /\ CountIn(f.targets[k].rolls, f.action.values) > 0
                /\ SingleDraw(f.targets[k].dice) \subseteq f.action.values
      [] OTHER -> FALSE

\* C25, amended: such a request never gives a session, and no global action
\* is ever applied to its fudge dice.  The call ends at the first step that
\* fails, the numeric session coming first: with IncompatibleAction at an
\* action the session does not take; with BadActionParameter at a keep or
\* reroll-best/worst whose count is more than the values its Rolls hold at
\* that point; or by the abort of a step (an overflowing product, sum or
\* flipped number, an explode that cannot stop, a roll of 255 dice).
C25_MixedGlobalFails ==
    (/\ stage = "returned"
     /\ locals.status = "ok"
     /\ Mixed
     /\ \E i \in DOMAIN locals.actions : locals.actions[i].name \in TypedActions)
        => /\ res = NoRes
           /\ \A i \in DOMAIN applied :
                 ~(applied[i].type = "fudge" /\ applied[i].op = "global")
           /\ CASE outcome = "IncompatibleAction" -> StepIncompatible(FailedStep)
                [] outcome = "BadActionParameter" -> StepCountRefused(FailedStep)
                [] outcome = "panic" -> StepAborts(FailedStep)
                [] OTHER -> FALSE

\* "F +5 2F keep-worst(2)": the numeric session has one value and refuses to
\* keep two, before any fudge dice is rolled.
C25_KeepCountRefusedFirst ==
    /\ stage = "returned"
    /\ Mixed
    /\ Len(locals.actions) = 1
    /\ locals.actions[1] = Act("KeepWorst", {}, 2)
    /\ outcome = "BadActionParameter"
    /\ EventsOf("fudge") = <<>>
    /\ EventsOf("numeric") # <<>>

\* The tokens of keep-best, keep-worst, reroll-best and reroll-worst.
KeepRules ==
    {"action_keep_best", "action_keep_worst", "action_reroll_best", "action_reroll_worst"}

\* The action tokens written for a request: those of its group, then those
\* of the string.
WrittenFor(q) ==
    LET own == SelectSeq(Groups, LAMBDA g : g.id = q.id)
    IN  (IF q.id = <<>> \/ own = <<>> THEN <<>> ELSE own[1].actions)
        \o [k \in DOMAIN GlobalTokens |-> GlobalTokens[k].actions[1]]

\* Every action token of the string, inside groups and outside, is one of
\* these four.
OnlyKeepWritten ==
    /\ \A k \in DOMAIN GlobalTokens : GlobalTokens[k].actions[1].rule \in KeepRules
    /\ \A g \in DOMAIN Groups : \A j \in DOMAIN Groups[g].actions :
          Groups[g].actions[j].rule \in KeepRules

\* C26: keep-best, keep-worst, reroll-best and reroll-worst(N) are applied
\* with the N that is written, so that an N greater than the number of
\* values of a request fails with BadActionParameter, also from 256 on.
C26_ExactCount ==
    locals.status = "ok" =>
        \A q \in Range(locals.num_request_dice) :
            LET W == WrittenFor(q)
                A == q.actions \o locals.actions
            IN  /\ Len(A) = Len(W)
                /\ \A k \in DOMAIN W :
                      W[k].rule \in KeepRules => A[k].n = Decimal(W[k].param)
                /\ (/\ stage = "returned"
                    /\ OnlyKeepWritten
                    /\ \E k \in DOMAIN W : Decimal(W[k].param) > q.number)
                      => outcome = "BadActionParameter"

\* "2D2 keep-best(257)": the action applied is KeepBest(1), and the session
\* returned holds one of the two values.
C26_CountNarrowed ==
    /\ stage = "returned"
    /\ outcome = "ok"
    /\ Len(locals.num_request_dice) = 1
    /\ locals.num_request_dice[1].number = 2
    /\ Len(GlobalTokens) = 1
    /\ GlobalTokens[1].actions[1].rule = "action_keep_best"
    /\ Decimal(GlobalTokens[1].actions[1].param) = 257
    /\ locals.actions = <<Act("KeepBest", {}, 1)>>
    /\ Len(res.numeric_session[1].rolls[1].rolls) = 1

\* A dice token whose count does not fit DiceNumber, or whose sides or value
\* do not fit NumericRoll.
OutOfRange(m) ==
    \/ m.dice_number # <<>> /\ Decimal(m.dice_number) >= DiceNumberRange
    \/ m.rule # "fudge_dice" /\ Decimal(m.dice_sides) >= NumericRollRange

\* C27: a dice token whose count or sides do not fit their type makes
\* parse_request return a parse error; the call is not aborted and the number
\* is not wrapped.
C27_OutOfRangeIsError ==
    (/\ stage = "returned"
     /\ Grammar(input).status = "ok"
     /\ \E i \in DOMAIN DiceTokens : OutOfRange(DiceTokens[i]))
        => outcome = "Parse" /\ res = NoRes

\* "300D6": the call was aborted while the token was read, nothing was
\* rolled.
C27_ReadAborted ==
    /\ stage = "returned"
    /\ Len(DiceTokens) = 1
    /\ DiceTokens[1].rule = "numbered_dice"
    /\ Decimal(DiceTokens[1].dice_number) = 300
    /\ outcome = "panic"
    /\ applied = <<>>
    /\ res = NoRes

\* C28: RerollBest(n) and RerollWorst(n) with n <= len return len values
\* whatever len is, beyond 255 too: len - n values are kept, a number that
\* is neither narrowed to DiceNumber nor below zero.
C28_LengthKept ==
    (/\ Applied
     /\ action.name \in {"RerollBest", "RerollWorst"}
     /\ IsNumeric(dice)
     /\ action.n <= Len(before))
        => /\ status = "ok"
           /\ Len(rolls) = Len(before)
           /\ Len(Take(rolls, Len(rolls) - action.n)) = Len(before) - action.n

\* More than 255 values were given to a RerollBest or RerollWorst of at
\* least one value, and what it returned is as long as the length narrowed
\* to DiceNumber.
C28_LengthNarrowed ==
    /\ Applied
    /\ action.name \in {"RerollBest", "RerollWorst"}
    /\ action.n >= 1
    /\ Len(before) > DiceNumberRange
    /\ status = "ok"
    /\ Len(rolls) = AsDiceNumber(Len(before))
    /\ Len(rolls) < Len(before)

\* The action the numeric session is given next, once the own actions of
\* its requests are done: the next global action, then the default Total.
NextGlobal ==
    IF session.global_done < Len(locals.actions)
    THEN locals.actions[session.global_done + 1]
    ELSE IF TotalExpected THEN Act("Total", {}, 0)
    ELSE NoAction

\* The values of the Rolls of a session, one after the other.
ValuesOf(rs) == Flatten([i \in DOMAIN rs |-> rs[i].rolls])

\* C29: the values MultiplyBy and Total make are the exact products and the
\* exact sum of the values they are given: never a value wrapped to 16 bits,
\* never an overflow that aborts the call.
C29_ExactArithmetic ==
    [][(/\ stage = "apply"
        /\ session.type = "numeric"
        /\ ~session.aggregated
        /\ session.private_done = Len(PrivateSteps(session.requests))
        /\ NextGlobal.name \in {"MultiplyBy", "Total"})
           => LET given == ValuesOf(session.rolls)
                  made == IF stage' = "apply" THEN ValuesOf(session'.rolls)
                          ELSE ValuesOf(res'.numeric_session[1].rolls)
              IN  /\ outcome' \in {"none", "ok"}
                  /\ NextGlobal.name = "MultiplyBy" =>
                        made = [k \in DOMAIN given |-> given[k] * NextGlobal.n]
                  /\ NextGlobal.name = "Total" => made = <<SeqSum(given)>>]_vars

\* "+40000 +40000 x2": the session returned holds 14464 twice, which is
\* 80000 less 65536.
C29_ProductWrapped ==
    /\ stage = "returned"
    /\ outcome = "ok"
    /\ locals.actions = <<Act("MultiplyBy", {}, 2)>>
    /\ locals.aggregation = "None"
    /\ Len(locals.num_request_dice) = 2
    /\ \A k \in 1..2 : locals.num_request_dice[k].dice = ConstDice(TotalOverflow)
    /\ ValuesOf(res.numeric_session[1].rolls)
          = <<2 * TotalOverflow - NumericRollRange, 2 * TotalOverflow - NumericRollRange>>

\* Every value has at most as many digits as the maximum of the dice.
FitsWidth(vs, d) ==
    \A i \in DOMAIN vs : vs[i] < Pow10(DigitWidth(GetMaxValue(d)))

\* C30: FlipFlop applied twice to values of at most W digits, W the number
\* of digits of the maximum of the dice, returns the values; FlipFlop leaves
\* the dice as it is, and fails on no such value.
C30_FlipTwice ==
    /\ [][(/\ pc = "ready"
           /\ action.name = "FlipFlop"
           /\ action'.name = "FlipFlop"
           /\ FitsWidth(before, dice))
              => status' = "ok" /\ rolls' = before /\ dice' = dice]_vars
    /\ []((/\ Applied
           /\ action.name = "FlipFlop"
           /\ IsNumeric(dice)
           /\ FitsWidth(before, dice))
              => status = "ok")

\* The first FlipFlop of the roll of the constant dice 10007, five digits
\* like its maximum, did not return: there is nothing to flip back.
C30_FirstFlipAborted ==
    /\ pc = "applied"
    /\ dice = ConstDice(FlipOverflow)
    /\ action.name = "FlipFlop"
    /\ before = <<FlipOverflow>>
    /\ FitsWidth(before, dice)
    /\ status = "panic"
    /\ ~ENABLED ApplyFlipFlop

====
